--------------------------- MODULE LifecycleProofs ---------------------------
(***************************************************************************)
(* Theorems about the master table, for any number of ids, dictionary      *)
(* objects and records: ids are handed out once, a row is where it is      *)
(* looked up but for the ids that never got a row, and no record is lost.  *)
(*                                                                         *)
(* None is inductive.  What has to be added is how many ids are above      *)
(* the last row: as many as creations that failed, and the one that is     *)
(* under way (TableOK); that the id in memory is the one of the file while *)
(* the table is open; that dictionary objects only have ids that were      *)
(* handed out, since a delete blanks the row of the id it is given; and    *)
(* for the records, which part of what is owed to the users of an id an    *)
(* open object, a copy under way and the file hold (RecordsOK).            *)
(***************************************************************************)
EXTENDS Lifecycle, SequenceTheorems, TLAPS

TypeNames == Types \cup {"none"}
TableRow == [id: Nat, type: TypeNames]
TableFile == [next: Nat, rows: Seq(TableRow)]

\* A creation that has its id and not yet its row.
Creating(op) == op \in {"create", "created"}
Reserved(op) == IF Creating(op) THEN 1 ELSE 0

HandedOut(t, i) == i > 0 => t # NoFile /\ i < t.next

RowIds(t, g) ==
  \A p \in 1 .. Len(t.rows) : LET i == t.rows[p].id IN
    i # 0 => p <= i /\ i <= p + g /\ i < t.next

RowsAscend(t) ==
  \A p, q \in 1 .. Len(t.rows) :
    p < q /\ t.rows[p].id # 0 /\ t.rows[q].id # 0 => t.rows[p].id < t.rows[q].id

RowsAreLive(t, lv) ==
  /\ \A i \in lv : i \in 1 .. Len(t.rows) /\ t.rows[i].id = i
  /\ \A p \in 1 .. Len(t.rows) : t.rows[p].id # 0 => p \in lv

NewestId(t, op, i) ==
  Creating(op) => i = t.next - 1 /\ \A p \in 1 .. Len(t.rows) : t.rows[p].id < i

\* The ids above the last row are those of failed creations and of the one
\* that is under way.
IdsAboveRows(t, g, op) ==
  /\ Len(t.rows) + Reserved(op) < t.next
  /\ t.next <= Len(t.rows) + Reserved(op) + g + 1

FileOK(t, lv, g, op, i) ==
  /\ IdsAboveRows(t, g, op)
  /\ RowIds(t, g)
  /\ RowsAscend(t)
  /\ g = 0 => RowsAreLive(t, lv)
  /\ NewestId(t, op, i)

\* The table t, the dictionaries lv there are, the creations g that failed,
\* and the operation op on i that is under way.
TableOK(t, lv, g, op, i) ==
  /\ t \in TableFile \cup {NoFile}
  /\ lv \in SUBSET (Nat \ {0}) /\ g \in Nat /\ i \in Nat
  /\ \A j \in lv \cup {i} : HandedOut(t, j)
  /\ op \in {"create", "created", "delete"} => t # NoFile
  /\ t # NoFile => FileOK(t, lv, g, op, i)

IsHandle(d) ==
  /\ d = [status |-> d.status, id |-> d.id, type |-> d.type, held |-> d.held, fresh |-> d.fresh]
  /\ d.id \in Nat /\ d.type \in TypeNames

HandlesOK(t, hd) ==
  /\ hd = [s \in Objects |-> hd[s]]
  /\ \A s \in Objects : IsHandle(hd[s]) /\ HandedOut(t, hd[s].id)

Operations == {"none", "create", "created", "open", "close", "delete"}
IsCall(c) ==
  /\ c = Call(c.op, c.slot, c.id, c.type, c.rest)
  /\ c.op \in Operations /\ c.slot \in Objects /\ c.type \in TypeNames

\* close_all only opens and closes.
ScanOK ==
  /\ scan # Off => opened /\ call.op \in {"none", "open", "close"}
  /\ call.op \in {"create", "created", "delete"} => opened

OpenedOK == opened => table # NoFile /\ next_id = table.next

IInv ==
  /\ TableOK(table, live, gaps, call.op, call.id)
  /\ HandlesOK(table, handle)
  /\ IsCall(call)
  /\ ScanOK
  /\ OpenedOK

-----------------------------------------------------------------------------
(***************************************************************************)
(* The table, as a value.                                                  *)
(***************************************************************************)
LEMMA TableFields ==
  ASSUME NEW t \in TableFile
  PROVE  t.rows \in Seq(TableRow) /\ t.next \in Nat /\ t = [next |-> t.next, rows |-> t.rows]
<1> DEFINE R == Seq(TableRow)
<1>1. t \in [next: Nat, rows: R]
  BY DEF TableFile
<1> HIDE DEF R
<1>2. t.rows \in R /\ t.next \in Nat /\ t = [next |-> t.next, rows |-> t.rows]
  BY <1>1
<1>3. QED
  BY <1>2 DEF R

LEMMA NoFileIsNoTable == NoFile \notin TableFile
  BY NoFileAssumption DEF TableFile, TableRow, TypeNames

LEMMA RowFields ==
  ASSUME NEW t \in TableFile, NEW p \in 1 .. Len(t.rows)
  PROVE  t.rows[p] \in TableRow /\ t.rows[p].id \in Nat
<1>1. t.rows[p] \in TableRow
  BY TableFields, ElementOfSeq
<1>2. QED
  BY <1>1 DEF TableRow

LEMMA Reservations ==
  /\ Reserved("create") = 1 /\ Reserved("created") = 1
  /\ \A op \in {"none", "open", "close", "delete"} : Reserved(op) = 0 /\ ~Creating(op)
  BY DEF Reserved, Creating

\* An id is taken.
LEMMA TakeId ==
  ASSUME NEW t \in TableFile, NEW lv, NEW g, TableOK(t, lv, g, "none", 0)
  PROVE  LET u == [t EXCEPT !.next = t.next + 1] IN
         TableOK(u, lv, g, "create", t.next) /\ u \in TableFile
<1> DEFINE u == [t EXCEPT !.next = t.next + 1]
<1>1. u = [next |-> t.next + 1, rows |-> t.rows] /\ t.next \in Nat /\ t.rows \in Seq(TableRow)
  BY TableFields
<1> HIDE DEF u
<1>2. u \in TableFile /\ u # NoFile /\ t # NoFile
  BY <1>1, NoFileIsNoTable DEF TableFile
<1>3. FileOK(t, lv, g, "none", 0) /\ Len(t.rows) \in Nat /\ g \in Nat
  BY <1>2, <1>1 DEF TableOK
<1>4. IdsAboveRows(u, g, "create")
  BY <1>1, <1>3, Reservations DEF FileOK, IdsAboveRows
<1>5. \A p \in 1 .. Len(t.rows) : t.rows[p].id \in Nat
  BY RowFields
<1>6. t.next > 0
  BY <1>1, <1>3, Reservations DEF FileOK, IdsAboveRows
<1>7. RowIds(u, g)
  BY <1>1, <1>3, <1>5 DEF FileOK, RowIds
<1>8. NewestId(u, "create", t.next)
  BY <1>1, <1>3, <1>5, <1>6 DEF FileOK, RowIds, NewestId
<1>9. RowsAscend(u) /\ (g = 0 => RowsAreLive(u, lv))
  BY <1>1, <1>3 DEF FileOK, RowsAscend, RowsAreLive
<1>10. \A j \in lv \cup {t.next} : HandedOut(u, j)
  <2>1. \A j \in lv : j \in Nat /\ j > 0 => j < t.next
    BY DEF TableOK, HandedOut
  <2>2. lv \subseteq Nat
    BY DEF TableOK
  <2>3. QED
    BY <1>1, <1>2, <2>1, <2>2 DEF HandedOut
<1>11. QED
  BY <1>1, <1>2, <1>4, <1>7, <1>8, <1>9, <1>10 DEF TableOK, FileOK, u

\* A creation gets its row, behind all others.
LEMMA AddRow ==
  ASSUME NEW t \in TableFile, NEW lv, NEW g, NEW i, NEW type \in TypeNames,
         TableOK(t, lv, g, "created", i)
  PROVE  LET u == [t EXCEPT !.rows = Append(t.rows, Row(i, type))] IN
         TableOK(u, lv \cup {i}, g, "none", 0) /\ u \in TableFile
<1> DEFINE u == [t EXCEPT !.rows = Append(t.rows, Row(i, type))]
           n == Len(t.rows)
<1>1. u = [next |-> t.next, rows |-> Append(t.rows, Row(i, type))]
      /\ t.next \in Nat /\ t.rows \in Seq(TableRow)
  BY TableFields
<1> HIDE DEF u
<1>2. t # NoFile /\ i \in Nat /\ g \in Nat /\ lv \in SUBSET (Nat \ {0})
  BY NoFileIsNoTable DEF TableOK
<1>3. FileOK(t, lv, g, "created", i) /\ n \in Nat
  BY <1>1, <1>2 DEF TableOK
<1>4. n + 1 < t.next /\ t.next <= n + 2 + g
  BY <1>1, <1>2, <1>3, Reservations DEF FileOK, IdsAboveRows
<1>5. i = t.next - 1 /\ i > 0 /\ \A p \in 1 .. n : t.rows[p].id \in Nat /\ t.rows[p].id < i
  BY <1>1, <1>3, <1>4, RowFields DEF FileOK, NewestId, Creating
<1>6. Row(i, type) \in TableRow
  BY <1>2 DEF Row, TableRow
<1>7. /\ u.next = t.next
      /\ u.rows \in Seq(TableRow) /\ Len(u.rows) = n + 1
      /\ u.rows[n + 1].id = i
      /\ \A p \in 1 .. n : u.rows[p] = t.rows[p]
  <2> DEFINE r == Append(t.rows, Row(i, type))
  <2>1. r \in Seq(TableRow) /\ Len(r) = n + 1 /\ r[n + 1] = Row(i, type)
        /\ \A p \in 1 .. n : r[p] = t.rows[p]
    BY <1>1, <1>6, AppendProperties
  <2> HIDE DEF r
  <2>2. u.next = t.next /\ u.rows = r
    BY <1>1 DEF r
  <2>3. Row(i, type).id = i
    BY DEF Row
  <2>4. QED
    BY <2>1, <2>2, <2>3
<1>8. u \in TableFile /\ u # NoFile
  BY <1>1, <1>7, NoFileIsNoTable DEF TableFile
<1>9. \A p \in 1 .. (n + 1) : p = n + 1 \/ p \in 1 .. n
  BY <1>3
<1>10. IdsAboveRows(u, g, "none")
  BY <1>1, <1>2, <1>3, <1>4, <1>7, Reservations DEF IdsAboveRows
<1>11. RowIds(u, g)
  <2>1. n + 1 <= i /\ i <= n + 1 + g /\ i < t.next
    BY <1>1, <1>2, <1>3, <1>4, <1>5
  <2>2. QED
    BY <1>3, <1>7, <1>9, <2>1 DEF RowIds, FileOK
<1>12. RowsAscend(u)
  <2>1. \A p, q \in 1 .. (n + 1) : p < q => p \in 1 .. n
    BY <1>3
  <2>2. \A p, q \in 1 .. n : p < q /\ t.rows[p].id # 0 /\ t.rows[q].id # 0
                             => t.rows[p].id < t.rows[q].id
    BY <1>3 DEF RowsAscend, FileOK
  <2>3. SUFFICES ASSUME NEW p \in 1 .. (n + 1), NEW q \in 1 .. (n + 1), p < q,
                        u.rows[p].id # 0, u.rows[q].id # 0
                 PROVE  u.rows[p].id < u.rows[q].id
    BY <1>7 DEF RowsAscend
  <2>4. p \in 1 .. n
    BY <2>1, <2>3
  <2>5. CASE q \in 1 .. n
    BY <1>7, <2>2, <2>3, <2>4, <2>5
  <2>6. CASE q = n + 1
    BY <1>5, <1>7, <2>4, <2>6
  <2>7. QED
    BY <1>9, <2>5, <2>6
<1>13. g = 0 => RowsAreLive(u, lv \cup {i})
  <2> SUFFICES ASSUME g = 0 PROVE RowsAreLive(u, lv \cup {i})
    OBVIOUS
  <2>1. i = n + 1
    BY <1>1, <1>3, <1>4, <1>5
  <2>2. \A j \in lv : j \in 1 .. n /\ t.rows[j].id = j
    BY <1>3 DEF FileOK, RowsAreLive
  <2>3. \A p \in 1 .. n : t.rows[p].id # 0 => p \in lv
    BY <1>3 DEF FileOK, RowsAreLive
  <2>4. \A j \in 1 .. n : j \in 1 .. (n + 1)
    BY <1>3
  <2>5. n + 1 \in 1 .. (n + 1)
    BY <1>3
  <2>6. \A j \in lv \cup {i} : j \in 1 .. (n + 1) /\ u.rows[j].id = j
    BY <1>7, <2>1, <2>2, <2>4, <2>5
  <2>7. \A p \in 1 .. (n + 1) : u.rows[p].id # 0 => p \in lv \cup {i}
    BY <1>7, <1>9, <2>1, <2>3
  <2>8. QED
    BY <1>7, <2>6, <2>7 DEF RowsAreLive
<1>14. \A j \in lv \cup {i} \cup {0} : HandedOut(u, j)
  BY <1>1, <1>2, <1>5, <1>7, <1>8 DEF TableOK, HandedOut
<1>15. FileOK(u, lv \cup {i}, g, "none", 0)
  <2>1. NewestId(u, "none", 0)
    BY Reservations DEF NewestId
  <2>2. QED
    BY <1>10, <1>11, <1>12, <1>13, <2>1 DEF FileOK
<1>16. lv \cup {i} \in SUBSET (Nat \ {0})
  <2>1. i \in Nat \ {0}
    BY <1>2, <1>5
  <2> HIDE DEF n
  <2>2. QED
    BY <1>2, <2>1
<1>17. TableOK(u, lv \cup {i}, g, "none", 0)
  BY <1>2, <1>8, <1>14, <1>15, <1>16 DEF TableOK
<1>18. QED
  BY <1>8, <1>17 DEF u

\* The row of a dictionary is blanked; it may be behind the last row.
LEMMA BlankRow ==
  ASSUME NEW t \in TableFile, NEW lv, NEW g, NEW i, TableOK(t, lv, g, "delete", i)
  PROVE  LET n == Len(t.rows)
             size == IF i > n THEN i ELSE n
             u == [t EXCEPT !.rows = [p \in 1 .. size |->
                     IF p = i THEN Blank ELSE IF p <= n THEN t.rows[p] ELSE Blank]] IN
         TableOK(u, lv \ {i}, g, "none", 0) /\ u \in TableFile
<1> DEFINE n == Len(t.rows)
           size == IF i > n THEN i ELSE n
           rows == [p \in 1 .. size |-> IF p = i THEN Blank ELSE IF p <= n THEN t.rows[p] ELSE Blank]
           u == [t EXCEPT !.rows = rows]
<1>1. t.next \in Nat /\ t.rows \in Seq(TableRow) /\ u = [next |-> t.next, rows |-> rows]
  <2> HIDE DEF rows
  <2> QED
    BY TableFields
<1>2. t # NoFile /\ i \in Nat /\ g \in Nat /\ lv \in SUBSET (Nat \ {0})
  BY NoFileIsNoTable DEF TableOK
<1>3. FileOK(t, lv, g, "delete", i) /\ n \in Nat
  BY <1>1, <1>2 DEF TableOK
<1>4. size \in Nat /\ size >= n /\ (size = n \/ size = i)
  BY <1>2, <1>3
<1> HIDE DEF size
<1>5. Blank \in TableRow /\ Blank.id = 0
  BY DEF Blank, Row, TableRow, TypeNames
<1>6. rows \in [1 .. size -> TableRow]
  BY <1>3, <1>4, <1>5, RowFields
<1>7. rows \in Seq(TableRow) /\ Len(rows) = size
  BY <1>4, <1>6
<1>8. /\ \A p \in 1 .. size : rows[p].id # 0 => p # i /\ p \in 1 .. n /\ rows[p] = t.rows[p]
      /\ \A p \in 1 .. n : p # i => p \in 1 .. size /\ rows[p] = t.rows[p]
  BY <1>3, <1>4, <1>5
<1> HIDE DEF rows, u
<1>9. u.next = t.next /\ u.rows = rows
  BY <1>1
<1>10. u \in TableFile /\ u # NoFile
  BY <1>1, <1>7, NoFileIsNoTable DEF TableFile
<1>11. n < t.next /\ t.next <= n + g + 1
  BY <1>1, <1>2, <1>3, Reservations DEF FileOK, IdsAboveRows
<1>12. i > 0 => i < t.next
  BY <1>2 DEF TableOK, HandedOut
<1>13. size < t.next /\ t.next <= size + g + 1
  BY <1>1, <1>2, <1>3, <1>4, <1>11, <1>12
<1>14. IdsAboveRows(u, g, "none")
  BY <1>1, <1>2, <1>4, <1>7, <1>9, <1>13, Reservations DEF IdsAboveRows
<1>15. RowIds(u, g) /\ RowsAscend(u)
  BY <1>3, <1>7, <1>8, <1>9 DEF FileOK, RowIds, RowsAscend
<1>16. g = 0 => RowsAreLive(u, lv \ {i})
  BY <1>3, <1>7, <1>8, <1>9 DEF FileOK, RowsAreLive
<1>17. \A j \in (lv \ {i}) \cup {0} : HandedOut(u, j)
  BY <1>1, <1>2, <1>9, <1>10 DEF TableOK, HandedOut
<1>18. QED
  BY <1>2, <1>10, <1>14, <1>15, <1>16, <1>17, Reservations
  DEF TableOK, FileOK, NewestId, u, rows, size

\* An operation other than a creation begins or ends.
LEMMA OtherOperation ==
  ASSUME NEW t, NEW lv, NEW g, NEW op \in {"none", "open", "close", "delete"}, NEW i,
         NEW op2 \in {"none", "open", "close", "delete"}, NEW j \in Nat,
         TableOK(t, lv, g, op, i), HandedOut(t, j), op2 = "delete" => t # NoFile
  PROVE  TableOK(t, lv, g, op2, j)
  BY Reservations DEF TableOK, FileOK, IdsAboveRows, NewestId

\* The instance of a creation is there.
LEMMA InstanceCreated ==
  ASSUME NEW t, NEW lv, NEW g, NEW i, TableOK(t, lv, g, "create", i)
  PROVE  TableOK(t, lv, g, "created", i)
  BY Reservations DEF TableOK, FileOK, IdsAboveRows, NewestId, Creating

\* A creation fails or is cut off: its id never gets a row.
LEMMA CreationLost ==
  ASSUME NEW t, NEW lv, NEW g, NEW op \in {"create", "created"}, NEW i, TableOK(t, lv, g, op, i)
  PROVE  TableOK(t, lv, g + 1, "none", 0)
<1>1. g \in Nat /\ g + 1 \in Nat /\ g + 1 # 0 /\ t # NoFile /\ t \in TableFile
  BY DEF TableOK
<1>2. FileOK(t, lv, g, op, i)
  BY <1>1 DEF TableOK
<1>3. t.next \in Nat /\ Len(t.rows) \in Nat
  BY <1>1, TableFields
<1>4. IdsAboveRows(t, g + 1, "none")
  BY <1>1, <1>2, <1>3, Reservations DEF FileOK, IdsAboveRows
<1>5. RowIds(t, g + 1)
  <2>1. \A p, k \in Nat : k <= p + g => k <= p + (g + 1)
    BY <1>1
  <2>2. \A p \in 1 .. Len(t.rows) : p \in Nat /\ t.rows[p].id \in Nat
    BY <1>1, <1>3, RowFields
  <2>3. QED
    BY <1>2, <2>1, <2>2 DEF FileOK, RowIds
<1>6. \A j \in lv \cup {0} : HandedOut(t, j)
  BY DEF TableOK, HandedOut
<1>7. QED
  BY <1>1, <1>2, <1>4, <1>5, <1>6, Reservations DEF TableOK, FileOK, NewestId

\* A table is made, when there is none and so no dictionary.
LEMMA NewTable ==
  ASSUME NEW lv, NEW g, TableOK(NoFile, lv, g, "none", 0)
  PROVE  LET u == [next |-> 1, rows |-> << >>] IN TableOK(u, lv, g, "none", 0) /\ u \in TableFile
<1> DEFINE u == [next |-> 1, rows |-> << >>]
<1>1. g \in Nat /\ lv = {}
  BY DEF TableOK, HandedOut
<1>2. u \in TableFile /\ u # NoFile
  <2> DEFINE R == Seq(TableRow)
  <2>1. << >> \in R
    BY EmptySeq
  <2> HIDE DEF R
  <2>2. u \in [next: Nat, rows: R]
    BY <2>1
  <2>3. QED
    BY <2>2, NoFileIsNoTable DEF TableFile, R
<1>3. u.next = 1 /\ u.rows = << >> /\ Len(u.rows) = 0
  OBVIOUS
<1> HIDE DEF u
<1>4. FileOK(u, lv, g, "none", 0)
  BY <1>1, <1>3, Reservations DEF FileOK, IdsAboveRows, RowIds, RowsAscend, RowsAreLive, NewestId
<1>5. QED
  BY <1>1, <1>2, <1>4 DEF TableOK, HandedOut, u

\* The table is deleted, when there is no dictionary.
LEMMA TableGone ==
  ASSUME NEW g \in Nat
  PROVE  TableOK(NoFile, {}, g, "none", 0)
  BY DEF TableOK, HandedOut

-----------------------------------------------------------------------------
(***************************************************************************)
(* Dictionary objects and calls.                                           *)
(***************************************************************************)
LEMMA NewHandle ==
  ASSUME NEW status, NEW i \in Nat, NEW type \in TypeNames, NEW held
  PROVE  LET d == Handle(status, i, type, held) IN IsHandle(d) /\ d.id = i
  BY DEF Handle, IsHandle

LEMMA BlankHandle == IsHandle(NoHandle) /\ NoHandle.id = 0
  BY NewHandle DEF NoHandle, TypeNames

\* One object is replaced.
LEMMA SetHandle ==
  ASSUME NEW t, NEW hd, HandlesOK(t, hd), NEW s \in Objects, NEW d, IsHandle(d), HandedOut(t, d.id)
  PROVE  HandlesOK(t, [hd EXCEPT ![s] = d])
<1> DEFINE hd2 == [x \in Objects |-> IF x = s THEN d ELSE hd[x]]
<1>1. [hd EXCEPT ![s] = d] = hd2
  BY DEF HandlesOK
<1>2. \A x \in Objects : hd2[x] = IF x = s THEN d ELSE hd[x]
  OBVIOUS
<1>3. hd2 = [x \in Objects |-> hd2[x]]
  OBVIOUS
<1> HIDE DEF hd2
<1>4. HandlesOK(t, hd2)
  BY <1>2, <1>3 DEF HandlesOK
<1>5. QED
  BY <1>1, <1>4

\* An object keeps its id and its type while its status or its records change.
LEMMA TouchRecord ==
  ASSUME NEW d, IsHandle(d), NEW x
  PROVE  /\ IsHandle([d EXCEPT !.status = x]) /\ [d EXCEPT !.status = x].id = d.id
         /\ IsHandle([d EXCEPT !.held = x]) /\ [d EXCEPT !.held = x].id = d.id
         /\ IsHandle([d EXCEPT !.fresh = x]) /\ [d EXCEPT !.fresh = x].id = d.id
<1> DEFINE c == [status |-> d.status, id |-> d.id, type |-> d.type, held |-> d.held, fresh |-> d.fresh]
<1>1. d = c /\ d.id \in Nat /\ d.type \in TypeNames
  BY DEF IsHandle
<1>2. [c EXCEPT !.status = x]
        = [status |-> x, id |-> d.id, type |-> d.type, held |-> d.held, fresh |-> d.fresh]
  OBVIOUS
<1>3. [c EXCEPT !.held = x]
        = [status |-> d.status, id |-> d.id, type |-> d.type, held |-> x, fresh |-> d.fresh]
  OBVIOUS
<1>4. [c EXCEPT !.fresh = x]
        = [status |-> d.status, id |-> d.id, type |-> d.type, held |-> d.held, fresh |-> x]
  OBVIOUS
<1> HIDE DEF c
<1>5. IsHandle([c EXCEPT !.status = x]) /\ [c EXCEPT !.status = x].id = d.id
  BY <1>1, <1>2 DEF IsHandle
<1>6. IsHandle([c EXCEPT !.held = x]) /\ [c EXCEPT !.held = x].id = d.id
  BY <1>1, <1>3 DEF IsHandle
<1>7. IsHandle([c EXCEPT !.fresh = x]) /\ [c EXCEPT !.fresh = x].id = d.id
  BY <1>1, <1>4 DEF IsHandle
<1>8. QED
  BY <1>1, <1>5, <1>6, <1>7

LEMMA TouchHandle ==
  ASSUME NEW t, NEW hd, HandlesOK(t, hd), NEW s \in Objects, NEW x, NEW y
  PROVE  /\ HandlesOK(t, [hd EXCEPT ![s].status = x])
         /\ HandlesOK(t, [hd EXCEPT ![s].held = x])
         /\ HandlesOK(t, [hd EXCEPT ![s].status = x, ![s].fresh = y])
<1>1. IsHandle(hd[s]) /\ HandedOut(t, hd[s].id) /\ hd = [z \in Objects |-> hd[z]]
  BY DEF HandlesOK
<1> DEFINE d == [hd[s] EXCEPT !.status = x]
           h == [hd EXCEPT ![s] = d]
<1>2. IsHandle(d) /\ HandedOut(t, d.id)
  BY <1>1, TouchRecord
<1>3. HandlesOK(t, h)
  <2> HIDE DEF d
  <2> QED
    BY <1>2, SetHandle
<1>4. HandlesOK(t, [hd EXCEPT ![s].held = x])
  <2> DEFINE e == [hd[s] EXCEPT !.held = x]
  <2>1. IsHandle(e) /\ HandedOut(t, e.id)
    BY <1>1, TouchRecord
  <2>2. HandlesOK(t, [hd EXCEPT ![s] = e])
    <3> HIDE DEF e
    <3> QED
      BY <2>1, SetHandle
  <2>3. QED
    BY <2>2
<1>5. HandlesOK(t, [h EXCEPT ![s].fresh = y])
  <2> DEFINE e == [h[s] EXCEPT !.fresh = y]
  <2>1. IsHandle(h[s]) /\ HandedOut(t, h[s].id)
    <3> HIDE DEF h
    <3> QED
      BY <1>3 DEF HandlesOK
  <2>2. IsHandle(e) /\ HandedOut(t, e.id)
    <3> HIDE DEF h
    <3> QED
      BY <2>1, TouchRecord
  <2>3. HandlesOK(t, [h EXCEPT ![s] = e])
    <3> HIDE DEF e, h
    <3> QED
      BY <1>3, <2>2, SetHandle
  <2>4. QED
    BY <2>3
<1>6. QED
  BY <1>3, <1>4, <1>5

\* The table has grown, or is there at last.
LEMMA TableGrows ==
  ASSUME NEW t \in TableFile \cup {NoFile}, NEW u \in TableFile, t # NoFile => t.next <= u.next,
         NEW hd, HandlesOK(t, hd)
  PROVE  HandlesOK(u, hd)
<1>1. u # NoFile /\ u.next \in Nat /\ (t # NoFile => t.next \in Nat)
  BY NoFileIsNoTable, TableFields
<1>2. \A s \in Objects : hd[s].id \in Nat /\ HandedOut(t, hd[s].id)
  BY DEF HandlesOK, IsHandle
<1>3. \A s \in Objects : HandedOut(u, hd[s].id)
  BY <1>1, <1>2 DEF HandedOut
<1>4. QED
  BY <1>3 DEF HandlesOK

LEMMA NoHandles ==
  ASSUME NEW t
  PROVE  HandlesOK(t, [s \in Objects |-> NoHandle])
<1> DEFINE hd == [s \in Objects |-> NoHandle]
<1>1. hd = [s \in Objects |-> hd[s]] /\ \A s \in Objects : hd[s] = NoHandle
  OBVIOUS
<1>2. HandedOut(t, NoHandle.id)
  BY BlankHandle DEF HandedOut
<1> HIDE DEF hd
<1>3. HandlesOK(t, hd)
  BY <1>1, <1>2, BlankHandle DEF HandlesOK
<1>4. QED
  BY <1>3 DEF hd

LEMMA NewCall ==
  ASSUME NEW op \in Operations, NEW s \in Objects, NEW i, NEW type \in TypeNames, NEW rest
  PROVE  LET c == Call(op, s, i, type, rest)
         IN IsCall(c) /\ c.op = op /\ c.slot = s /\ c.id = i /\ c.type = type
  BY DEF Call, IsCall

LEMMA BlankCall == IsCall(NoCall) /\ NoCall.op = "none" /\ NoCall.id = 0
  BY NewCall DEF NoCall, Operations, TypeNames, Objects

\* A call goes on.
LEMMA StepCall ==
  ASSUME NEW c, IsCall(c), NEW op \in Operations, NEW rest
  PROVE  /\ IsCall([c EXCEPT !.op = op])
         /\ [c EXCEPT !.op = op].op = op /\ [c EXCEPT !.op = op].id = c.id
         /\ IsCall([c EXCEPT !.rest = rest])
         /\ [c EXCEPT !.rest = rest].op = c.op /\ [c EXCEPT !.rest = rest].id = c.id
<1> DEFINE k == Call(c.op, c.slot, c.id, c.type, c.rest)
<1>1. c = k /\ c.slot \in Objects /\ c.type \in TypeNames /\ c.op \in Operations
  BY DEF IsCall
<1>2. [k EXCEPT !.op = op] = Call(op, c.slot, c.id, c.type, c.rest)
  BY DEF Call
<1>3. [k EXCEPT !.rest = rest] = Call(c.op, c.slot, c.id, c.type, rest)
  BY DEF Call
<1> HIDE DEF k
<1>4. QED
  BY <1>1, <1>2, <1>3, NewCall

-----------------------------------------------------------------------------
(***************************************************************************)
(* The invariant is kept: first by what leaves the table alone.            *)
(***************************************************************************)
QuietOps == {"none", "open", "close"}

LEMMA SameTable ==
  ASSUME IInv, UNCHANGED tableVars, UNCHANGED <<live, gaps>>, HandlesOK(table, handle'),
         \/ call' = call
         \/ /\ call.op \in QuietOps /\ call'.op \in QuietOps /\ IsCall(call')
            /\ call'.id \in Nat /\ HandedOut(table, call'.id),
         scan' \in {scan, Off} \/ (opened /\ call'.op \in QuietOps)
  PROVE  IInv'
<1>1. table' = table /\ opened' = opened /\ next_id' = next_id /\ live' = live /\ gaps' = gaps
  BY DEF tableVars
<1>2. TableOK(table, live, gaps, call'.op, call'.id)
  BY OtherOperation DEF IInv, QuietOps
<1>3. IsCall(call')
  BY DEF IInv
<1>4. ScanOK'
  BY <1>1 DEF IInv, ScanOK, QuietOps
<1>5. OpenedOK'
  BY <1>1 DEF IInv, OpenedOK
<1>6. QED
  BY <1>1, <1>2, <1>3, <1>4, <1>5 DEF IInv

\* What the invariant says of the ids that are at hand.
LEMMA IdsAtHand ==
  ASSUME IInv
  PROVE  /\ call.id \in Nat /\ HandedOut(table, call.id) /\ call.slot \in Objects
         /\ call.type \in TypeNames /\ call.op \in Operations
         /\ \A s \in Objects : /\ handle[s].id \in Nat /\ handle[s].type \in TypeNames
                                /\ HandedOut(table, handle[s].id)
  BY DEF IInv, TableOK, IsCall, HandlesOK, IsHandle

LEMMA RowAtHand ==
  ASSUME IInv, opened, NEW p, Found(p)
  PROVE  /\ table.rows[p].id \in Nat /\ table.rows[p].type \in TypeNames
         /\ HandedOut(table, table.rows[p].id)
<1>1. table # NoFile /\ table \in TableFile /\ RowIds(table, gaps)
  BY DEF IInv, OpenedOK, TableOK, FileOK
<1>2. p \in 1 .. Len(table.rows) /\ table.rows[p].id # 0
  BY DEF Found
<1>3. table.rows[p] \in TableRow /\ table.rows[p].id \in Nat
  BY <1>1, <1>2, RowFields
<1>4. QED
  BY <1>1, <1>2, <1>3 DEF RowIds, TableRow, HandedOut

LEMMA InsertKeeps ==
  ASSUME IInv, NEW s \in Slots, NEW r \in Records, Insert(s, r)
  PROVE  IInv'
<1>1. HandlesOK(table, handle) /\ s \in Objects
  BY DEF IInv, Objects
<1>2. HandlesOK(table, handle')
  <2> DEFINE x == Plus(handle[s].held, r)
  <2>1. handle' = handle \/ handle' = [handle EXCEPT ![s].held = x]
    BY DEF Insert
  <2> HIDE DEF x
  <2>2. HandlesOK(table, [handle EXCEPT ![s].held = x])
    BY <1>1, TouchHandle
  <2>3. QED
    BY <1>1, <2>1, <2>2 
<1>3. QED
  BY <1>2, SameTable DEF Insert

\* dictionary_open, by the program and by ion_close_all_master_table.
LEMMA OpenKeeps ==
  ASSUME IInv, opened, call = NoCall, NEW s \in Objects, NEW p, Found(p),
         dictionary_open(s, table.rows[p]), UNCHANGED <<tableVars, scan, history>>
  PROVE  IInv'
<1> DEFINE row == table.rows[p]
<1>1. row.id \in Nat /\ row.type \in TypeNames /\ HandedOut(table, row.id) /\ HandlesOK(table, handle)
  BY RowAtHand DEF IInv
<1>2. call.op = "none"
  BY BlankCall
<1>3. CASE row.type = SkipList
  <2>1. /\ call' = Call("open", s, row.id, row.type, OnFile(row.id))
        /\ handle' = [handle EXCEPT ![s] = Handle("unset", row.id, row.type, NoRecords)]
    BY <1>3 DEF dictionary_open
  <2>2. HandlesOK(table, handle')
    <3> DEFINE d == Handle("unset", row.id, row.type, NoRecords)
    <3>1. IsHandle(d) /\ HandedOut(table, d.id) /\ handle' = [handle EXCEPT ![s] = d]
      BY <1>1, <2>1, NewHandle
    <3> HIDE DEF d
    <3>2. QED
      BY <1>1, <3>1, SetHandle
  <2>3. IsCall(call') /\ call'.op = "open" /\ call'.id = row.id
    BY <1>1, <2>1, NewCall DEF Operations
  <2>4. QED
    BY <1>1, <1>2, <2>2, <2>3, SameTable DEF QuietOps, history
<1>4. CASE row.type # SkipList
  <2>1. /\ call' = call
        /\ handle' = [handle EXCEPT ![s] = Handle("ok", row.id, row.type, NoRecords)]
    BY <1>4 DEF dictionary_open
  <2>2. HandlesOK(table, handle')
    <3> DEFINE d == Handle("ok", row.id, row.type, NoRecords)
    <3>1. IsHandle(d) /\ HandedOut(table, d.id) /\ handle' = [handle EXCEPT ![s] = d]
      BY <1>1, <2>1, NewHandle
    <3> HIDE DEF d
    <3>2. QED
      BY <1>1, <3>1, SetHandle
  <2>3. QED
    BY <2>1, <2>2, SameTable DEF history
<1>5. QED
  BY <1>3, <1>4

\* dictionary_close, by the program and by ion_close_all_master_table.
LEMMA CloseKeeps ==
  ASSUME IInv, call = NoCall, NEW s \in Objects, dictionary_close(s), UNCHANGED <<tableVars, scan, history>>
  PROVE  IInv'
<1>1. HandlesOK(table, handle)
  BY DEF IInv
<1>2. CASE handle[s].type = SkipList
  <2>1. handle' = handle
        /\ call' = Call("close", s, handle[s].id, handle[s].type, handle[s].held)
    BY <1>2 DEF dictionary_close
  <2>2. IsCall(call') /\ call'.op = "close" /\ call'.id = handle[s].id
    BY <2>1, IdsAtHand, NewCall DEF Operations
  <2>3. call.op = "none"
    BY BlankCall
  <2>4. QED
    BY <1>1, <2>1, <2>2, <2>3, IdsAtHand, SameTable DEF QuietOps, history
<1>3. CASE handle[s].type # SkipList
  <2>1. handle' = [handle EXCEPT ![s].status = "closed", ![s].fresh = FALSE] /\ call' = call
    BY <1>3 DEF dictionary_close
  <2>2. HandlesOK(table, handle')
    BY <1>1, <2>1, TouchHandle
  <2>3. QED
    BY <2>1, <2>2, SameTable DEF history
<1>4. QED
  BY <1>2, <1>3

\* The records of an opened or closed dictionary are copied.
LEMMA CopyKeeps ==
  ASSUME IInv, NEW r \in Records, CopyIn(r) \/ CopyOut(r)
  PROVE  IInv'
<1>1. HandlesOK(table, handle) /\ IsCall(call) /\ call.op \in {"open", "close"}
  BY DEF IInv, CopyIn, CopyOut
<1>2. call' = [call EXCEPT !.rest = Less(@, r)]
  BY DEF CopyIn, CopyOut
<1>3. IsCall(call') /\ call'.op = call.op /\ call'.id = call.id
  <2> DEFINE x == Less(call.rest, r)
  <2>1. call' = [call EXCEPT !.rest = x] /\ call.op \in Operations
    BY <1>1, <1>2 DEF IsCall
  <2> HIDE DEF x
  <2>2. QED
    BY <1>1, <2>1, StepCall
<1>4. HandlesOK(table, handle')
  <2> DEFINE s == call.slot
             x == Plus(handle[s].held, r)
  <2>1. handle' = handle \/ handle' = [handle EXCEPT ![s].held = x]
    BY DEF CopyIn, CopyOut
  <2>2. s \in Objects
    BY IdsAtHand
  <2> HIDE DEF x, s
  <2>3. HandlesOK(table, [handle EXCEPT ![s].held = x])
    BY <1>1, <2>2, TouchHandle
  <2>4. QED
    BY <1>1, <2>1, <2>3
<1>5. QED
  BY <1>1, <1>3, <1>4, IdsAtHand, SameTable DEF CopyIn, CopyOut, QuietOps, history

\* An open or a close ends, one way or the other.
LEMMA CopyEndKeeps ==
  ASSUME IInv, OpenFails \/ OpenEnds \/ CloseFails \/ CloseEnds
  PROVE  IInv'
<1>1. HandlesOK(table, handle) /\ call.op \in QuietOps /\ call' = NoCall /\ scan' \in {scan, Off}
      /\ UNCHANGED tableVars /\ UNCHANGED <<live, gaps>>
  BY DEF IInv, OpenFails, OpenEnds, CloseFails, CloseEnds, QuietOps, history
<1>2. HandedOut(table, 0) /\ Local \in Objects
  BY DEF HandedOut, Objects
<1>3. HandlesOK(table, handle')
  <2>1. CASE OpenFails
    BY <1>1, <1>2, <2>1, IdsAtHand, BlankHandle, SetHandle DEF OpenFails
  <2>2. CASE OpenEnds
    BY <1>1, <2>2, IdsAtHand, TouchHandle DEF OpenEnds
  <2>3. CASE CloseFails
    BY <1>1, <1>2, <2>3, IdsAtHand, BlankHandle, SetHandle DEF CloseFails
  <2>4. CASE CloseEnds
    <3> DEFINE s == call.slot
               d == Handle("closed", handle[s].id, handle[s].type, NoRecords)
    <3>1. handle' = [handle EXCEPT ![s] = d] /\ s \in Objects
      BY <2>4, IdsAtHand DEF CloseEnds
    <3>2. IsHandle(d) /\ HandedOut(table, d.id)
      BY <3>1, IdsAtHand, NewHandle
    <3> HIDE DEF d
    <3>3. QED
      BY <1>1, <3>1, <3>2, SetHandle
  <2>5. QED
    BY <2>1, <2>2, <2>3, <2>4
<1>4. QED
  BY <1>1, <1>2, <1>3, BlankCall, SameTable DEF QuietOps

\* ion_close_all_master_table goes from id to id.
LEMMA ScanKeeps ==
  ASSUME IInv, CloseAll \/ CloseAllSkips \/ CloseAllNext
  PROVE  IInv'
<1>1. HandlesOK(table, handle) /\ HandedOut(table, 0) /\ Local \in Objects
  BY DEF IInv, HandedOut, Objects
<1>2. CASE CloseAll
  BY <1>1, <1>2, BlankCall, SameTable DEF CloseAll, Idle, QuietOps, history
<1>3. CASE CloseAllSkips
  <2>1. scan # Off
    BY <1>3 DEF CloseAllSkips, Off
  <2>2. QED
    BY <1>1, <1>3, <2>1, SameTable DEF CloseAllSkips, QuietOps, history, IInv, ScanOK
<1>4. CASE CloseAllNext
  <2>1. scan # Off
    BY <1>4 DEF CloseAllNext, Off
  <2>2. HandlesOK(table, handle')
    BY <1>1, <1>4, BlankHandle, SetHandle DEF CloseAllNext
  <2>3. QED
    BY <1>4, <2>1, <2>2, SameTable DEF CloseAllNext, QuietOps, history, IInv, ScanOK
<1>5. QED
  BY <1>2, <1>3, <1>4

-----------------------------------------------------------------------------
(***************************************************************************)
(* Then by what changes the table, or the operation that it is in.         *)
(***************************************************************************)
LEMMA OpenTable ==
  ASSUME IInv, opened
  PROVE  table \in TableFile /\ next_id = table.next
  BY DEF IInv, OpenedOK, TableOK

LEMMA CreateTakesIdKeeps ==
  ASSUME IInv, NEW s \in Slots, NEW type \in Types, CreateTakesId(s, type)
  PROVE  IInv'
<1>1. /\ call = NoCall /\ scan = Off /\ opened
      /\ table' = [table EXCEPT !.next = next_id + 1] /\ next_id' = next_id + 1 /\ opened' = opened
      /\ call' = Call("create", s, next_id, type, NoRecords)
      /\ handle' = handle /\ scan' = scan /\ live' = live /\ gaps' = gaps
  BY DEF CreateTakesId, Idle, ion_master_table_get_next_id, history
<1>2. table \in TableFile /\ next_id = table.next
  BY <1>1, OpenTable
<1>3. TableOK(table, live, gaps, "none", 0) /\ HandlesOK(table, handle)
  BY <1>1, BlankCall DEF IInv
<1> DEFINE u == [table EXCEPT !.next = table.next + 1]
<1>4. TableOK(u, live, gaps, "create", table.next) /\ u \in TableFile
  BY <1>2, <1>3, TakeId
<1>5. table' = u
  BY <1>1, <1>2
<1>6. u.next = table.next + 1 /\ table.next \in Nat
  <2> DEFINE n == table.next + 1
  <2>1. table = [next |-> table.next, rows |-> table.rows] /\ table.next \in Nat
    BY <1>2, TableFields
  <2> HIDE DEF n
  <2>2. [table EXCEPT !.next = n].next = n
    BY <2>1
  <2>3. QED
    BY <2>1, <2>2 DEF n
<1> HIDE DEF u
<1>7. IsCall(call') /\ call'.op = "create" /\ call'.id = table.next
  BY <1>1, <1>2, NewCall DEF Operations, Objects, TypeNames
<1>8. TableOK(table', live', gaps', call'.op, call'.id)
  BY <1>1, <1>4, <1>5, <1>7
<1>9. HandlesOK(u, handle)
  BY <1>2, <1>3, <1>4, <1>6, TableGrows
<1>10. OpenedOK'
  BY <1>1, <1>2, <1>4, <1>5, <1>6, NoFileIsNoTable DEF OpenedOK
<1>11. ScanOK'
  BY <1>1 DEF ScanOK
<1>12. QED
  BY <1>1, <1>5, <1>7, <1>8, <1>9, <1>10, <1>11 DEF IInv

LEMMA CreateInstanceKeeps ==
  ASSUME IInv, CreateInstance
  PROVE  IInv'
<1>1. /\ call.op = "create" /\ call' = [call EXCEPT !.op = "created"]
      /\ handle' = [handle EXCEPT ![call.slot] =
                     [Handle("ok", call.id, call.type, NoRecords) EXCEPT !.fresh = TRUE]]
      /\ UNCHANGED <<table, next_id, opened, scan, live, gaps>>
  BY DEF CreateInstance, tableVars, history
<1>2. IsCall(call') /\ call'.op = "created" /\ call'.id = call.id
  BY <1>1, StepCall DEF IInv, Operations
<1>3. TableOK(table, live, gaps, "created", call.id)
  BY <1>1, InstanceCreated DEF IInv
<1>4. HandlesOK(table, handle')
  <2> DEFINE h == Handle("ok", call.id, call.type, NoRecords)
             yes == TRUE
             d == [h EXCEPT !.fresh = yes]
  <2>1. IsHandle(h) /\ h.id = call.id
    BY IdsAtHand, NewHandle
  <2>2. handle' = [handle EXCEPT ![call.slot] = d]
    BY <1>1
  <2> HIDE DEF h, yes
  <2>3. IsHandle([h EXCEPT !.fresh = yes]) /\ [h EXCEPT !.fresh = yes].id = h.id
    BY <2>1, TouchRecord
  <2> HIDE DEF d
  <2>4. IsHandle(d) /\ HandedOut(table, d.id)
    BY <2>1, <2>3, IdsAtHand DEF d
  <2>5. QED
    BY <2>2, <2>4, IdsAtHand, SetHandle DEF IInv
<1>5. QED
  BY <1>1, <1>2, <1>3, <1>4 DEF IInv, ScanOK, OpenedOK

LEMMA CreateFailsKeeps ==
  ASSUME IInv, CreateFails
  PROVE  IInv'
<1>1. /\ call.op = "create" /\ call' = NoCall /\ gaps' = gaps + 1
      /\ handle' = [handle EXCEPT ![call.slot] = [NoHandle EXCEPT !.status = "error"]]
      /\ UNCHANGED <<table, next_id, opened, scan, live>>
  BY DEF CreateFails, tableVars
<1>2. TableOK(table, live, gaps + 1, "none", 0)
  BY <1>1, CreationLost DEF IInv
<1>3. HandlesOK(table, handle')
  <2> DEFINE d == [NoHandle EXCEPT !.status = "error"]
  <2>1. IsHandle(d) /\ d.id = 0
    BY BlankHandle, TouchRecord
  <2>2. handle' = [handle EXCEPT ![call.slot] = d]
    BY <1>1
  <2> HIDE DEF d
  <2>3. HandedOut(table, d.id)
    BY <2>1 DEF HandedOut
  <2>4. QED
    BY <2>1, <2>2, <2>3, IdsAtHand, SetHandle DEF IInv
<1>4. ScanOK' /\ OpenedOK'
  BY <1>1, BlankCall DEF IInv, ScanOK, OpenedOK
<1>5. QED
  BY <1>1, <1>2, <1>3, <1>4, BlankCall DEF IInv

LEMMA CreateAddsRowKeeps ==
  ASSUME IInv, CreateAddsRow
  PROVE  IInv'
<1>1. /\ call.op = "created" /\ call' = NoCall /\ live' = live \cup {call.id}
      /\ table' = [table EXCEPT !.rows = Append(table.rows, Row(call.id, call.type))]
      /\ UNCHANGED <<next_id, opened, handle, scan, gaps>>
  BY DEF CreateAddsRow, ion_add_to_master_table, WriteFromEnd
<1>2. opened /\ table \in TableFile /\ next_id = table.next
  BY <1>1, OpenTable DEF IInv, ScanOK
<1> DEFINE u == [table EXCEPT !.rows = Append(table.rows, Row(call.id, call.type))]
<1>3. TableOK(u, live \cup {call.id}, gaps, "none", 0) /\ u \in TableFile
  <2>1. TableOK(table, live, gaps, "created", call.id) /\ call.type \in TypeNames
    BY <1>1, IdsAtHand DEF IInv
  <2>2. QED
    BY <1>2, <2>1, AddRow
<1>4. table' = u
  BY <1>1
<1>5. u.next = table.next /\ table.next \in Nat
  <2> DEFINE r == Append(table.rows, Row(call.id, call.type))
  <2>1. table = [next |-> table.next, rows |-> table.rows] /\ table.next \in Nat
    BY <1>2, TableFields
  <2> HIDE DEF r
  <2>2. [table EXCEPT !.rows = r].next = table.next
    BY <2>1
  <2>3. QED
    BY <2>1, <2>2 DEF r
<1> HIDE DEF u
<1>6. TableOK(table', live', gaps', call'.op, call'.id)
  BY <1>1, <1>3, <1>4, BlankCall
<1>7. HandlesOK(u, handle)
  BY <1>2, <1>3, <1>5, TableGrows DEF IInv
<1>8. OpenedOK'
  BY <1>1, <1>2, <1>3, <1>4, <1>5, NoFileIsNoTable DEF OpenedOK
<1>9. ScanOK'
  BY <1>1, BlankCall DEF IInv, ScanOK
<1>10. QED
  BY <1>1, <1>4, <1>6, <1>7, <1>8, <1>9, BlankCall DEF IInv

LEMMA DeleteInstanceKeeps ==
  ASSUME IInv, NEW s \in Slots, DeleteInstance(s)
  PROVE  IInv'
<1>1. /\ call = NoCall /\ scan = Off /\ opened /\ s \in Objects
      /\ call' = Call("delete", s, handle[s].id, handle[s].type, NoRecords)
      /\ handle' = [handle EXCEPT ![s] = NoHandle]
      /\ UNCHANGED <<table, next_id, opened, scan, live, gaps>>
  BY DEF DeleteInstance, Idle, tableVars, Objects
<1>2. IsCall(call') /\ call'.op = "delete" /\ call'.id = handle[s].id
  BY <1>1, IdsAtHand, NewCall DEF Operations
<1>3. table # NoFile
  BY <1>1, OpenTable, NoFileIsNoTable
<1>4. TableOK(table, live, gaps, "delete", handle[s].id)
  <2>1. TableOK(table, live, gaps, "none", 0) /\ handle[s].id \in Nat
        /\ HandedOut(table, handle[s].id)
    BY <1>1, BlankCall, IdsAtHand DEF IInv
  <2>2. QED
    BY <1>3, <2>1, OtherOperation
<1>5. HandlesOK(table, handle')
  <2>1. HandedOut(table, NoHandle.id)
    BY BlankHandle DEF HandedOut
  <2>2. QED
    BY <1>1, <2>1, BlankHandle, SetHandle DEF IInv
<1>6. ScanOK' /\ OpenedOK'
  BY <1>1 DEF IInv, ScanOK, OpenedOK
<1>7. QED
  BY <1>1, <1>2, <1>4, <1>5, <1>6 DEF IInv

LEMMA DeleteRowKeeps ==
  ASSUME IInv, DeleteRow
  PROVE  IInv'
<1> DEFINE i == call.id
           n == Len(table.rows)
           size == IF i > n THEN i ELSE n
           rows == [p \in 1 .. size |->
                      IF p = i THEN Blank ELSE IF p <= n THEN table.rows[p] ELSE Blank]
           u == [table EXCEPT !.rows = rows]
<1>1. /\ call.op = "delete" /\ call' = NoCall /\ live' = live \ {i}
      /\ table' = u
      /\ UNCHANGED <<next_id, opened, handle, scan, gaps>>
  BY DEF DeleteRow, ion_delete_from_master_table, WriteAt
<1>2. opened /\ table \in TableFile /\ next_id = table.next
  BY <1>1, OpenTable DEF IInv, ScanOK
<1>3. TableOK(u, live \ {i}, gaps, "none", 0) /\ u \in TableFile
  <2>1. TableOK(table, live, gaps, "delete", i)
    BY <1>1 DEF IInv
  <2>2. QED
    BY <1>2, <2>1, BlankRow
<1>4. u.next = table.next /\ table.next \in Nat
  <2>1. table = [next |-> table.next, rows |-> table.rows] /\ table.next \in Nat
    BY <1>2, TableFields
  <2> HIDE DEF rows
  <2>2. [table EXCEPT !.rows = rows].next = table.next
    BY <2>1
  <2>3. QED
    BY <2>1, <2>2
<1> HIDE DEF u, i
<1>5. TableOK(table', live', gaps', call'.op, call'.id)
  BY <1>1, <1>3, BlankCall
<1>6. HandlesOK(u, handle)
  BY <1>2, <1>3, <1>4, TableGrows DEF IInv
<1>7. OpenedOK'
  BY <1>1, <1>2, <1>3, <1>4, NoFileIsNoTable DEF OpenedOK
<1>8. ScanOK'
  BY <1>1, BlankCall DEF IInv, ScanOK
<1>9. QED
  BY <1>1, <1>5, <1>6, <1>7, <1>8, BlankCall DEF IInv

LEMMA InitTableKeeps ==
  ASSUME IInv, InitTable
  PROVE  IInv'
<1> DEFINE e == [next |-> 1, rows |-> << >>]
<1>1. /\ call = NoCall /\ scan = Off
      /\ table' = IF table = NoFile THEN e ELSE table
      /\ next_id' = table'.next
      /\ UNCHANGED <<handle, call, scan, live, gaps>>
  BY DEF InitTable, Idle, ion_init_master_table, dictVars, history
<1>2. TableOK(table, live, gaps, "none", 0) /\ HandlesOK(table, handle)
  BY <1>1, BlankCall DEF IInv
<1>3. TableOK(table', live, gaps, "none", 0) /\ table' \in TableFile
      /\ (table # NoFile => table' = table)
  <2>1. CASE table = NoFile
    BY <1>1, <1>2, <2>1, NewTable
  <2>2. CASE table # NoFile
    BY <1>1, <1>2, <2>2 DEF TableOK
  <2>3. QED
    BY <2>1, <2>2
<1> HIDE DEF e
<1>4. HandlesOK(table', handle)
  <2>1. table \in TableFile \cup {NoFile}
    BY <1>2 DEF TableOK
  <2>2. table # NoFile => table.next <= table'.next
    BY <1>3, <2>1, TableFields
  <2>3. QED
    BY <1>2, <1>3, <2>1, <2>2, TableGrows
<1>5. OpenedOK'
  BY <1>1, <1>3, NoFileIsNoTable DEF OpenedOK
<1>6. ScanOK'
  BY <1>1, BlankCall DEF ScanOK
<1>7. QED
  BY <1>1, <1>3, <1>4, <1>5, <1>6, BlankCall DEF IInv

\* The table is closed, by the program or at the end of close_all.
LEMMA CloseTableKeeps ==
  ASSUME IInv, CloseTable \/ CloseAllEnds
  PROVE  IInv'
<1>1. /\ ~opened' /\ scan' = Off
      /\ UNCHANGED <<table, next_id, handle, call, live, gaps>>
  BY DEF CloseTable, CloseAllEnds, Idle, ion_close_master_table, dictVars, history
<1>2. call.op \in {"none", "open", "close"}
  BY BlankCall DEF CloseTable, CloseAllEnds, Idle, IInv, ScanOK, Off
<1>3. QED
  BY <1>1, <1>2 DEF IInv, ScanOK, OpenedOK

LEMMA DeleteTableKeeps ==
  ASSUME IInv, DeleteTable
  PROVE  IInv'
<1>1. /\ call = NoCall /\ scan = Off /\ live = {} /\ ~opened /\ table' = NoFile
      /\ handle' = [s \in Objects |-> NoHandle]
      /\ UNCHANGED <<opened, call, scan, live, gaps>>
  BY DEF DeleteTable, Idle, ion_delete_master_table, history
<1>2. TableOK(NoFile, {}, gaps, "none", 0)
  BY TableGone DEF IInv, TableOK
<1>3. HandlesOK(NoFile, handle')
  BY <1>1, NoHandles
<1>4. ScanOK' /\ OpenedOK'
  BY <1>1, BlankCall DEF ScanOK, OpenedOK
<1>5. QED
  BY <1>1, <1>2, <1>3, <1>4, BlankCall DEF IInv

LEMMA CrashKeeps ==
  ASSUME IInv, Crash
  PROVE  IInv'
<1>1. /\ gaps' = gaps + (IF call.op \in {"create", "created"} THEN 1 ELSE 0)
      /\ ~opened' /\ call' = NoCall /\ scan' = Off
      /\ handle' = [s \in Objects |-> NoHandle]
      /\ UNCHANGED <<table, live>>
  BY DEF Crash, TableCrash
<1>2. TableOK(table, live, gaps, call.op, call.id) /\ gaps \in Nat /\ call.op \in Operations
  BY IdsAtHand DEF IInv, TableOK
<1>3. TableOK(table, live, gaps', "none", 0)
  <2>1. CASE call.op \in {"create", "created"}
    <3>1. gaps' = gaps + 1
      BY <1>1, <2>1
    <3>2. TableOK(table, live, gaps + 1, "none", 0)
      BY <1>2, <2>1, CreationLost
    <3>3. QED
      BY <3>1, <3>2
  <2>2. CASE call.op \notin {"create", "created"}
    <3>1. gaps' = gaps
      BY <1>1, <1>2, <2>2
    <3>2. HandedOut(table, 0)
      BY DEF HandedOut
    <3>3. TableOK(table, live, gaps, "none", 0)
      BY <1>2, <2>2, <3>2, OtherOperation DEF Operations
    <3>4. QED
      BY <3>1, <3>3
  <2>3. QED
    BY <2>1, <2>2
<1>4. HandlesOK(table, handle')
  BY <1>1, NoHandles
<1>5. ScanOK' /\ OpenedOK'
  BY <1>1, BlankCall DEF ScanOK, OpenedOK
<1>6. QED
  BY <1>1, <1>3, <1>4, <1>5, BlankCall DEF IInv

-----------------------------------------------------------------------------
LEMMA InitIInv == Init => IInv
<1> SUFFICES ASSUME Init PROVE IInv
  OBVIOUS
<1>1. TableOK(table, live, gaps, "none", 0)
  BY TableGone DEF Init, TableInit
<1>2. HandlesOK(table, handle)
  BY NoHandles DEF Init
<1>3. ScanOK /\ OpenedOK
  BY BlankCall DEF Init, TableInit, ScanOK, OpenedOK
<1>4. QED
  BY <1>1, <1>2, <1>3, BlankCall DEF Init, IInv

LEMMA NextKeepsIInv == IInv /\ [Next]_vars => IInv'
<1> SUFFICES ASSUME IInv, [Next]_vars PROVE IInv'
  OBVIOUS
<1>1. ASSUME NEW s \in Slots, NEW type \in Types, CreateTakesId(s, type) PROVE IInv'
  BY <1>1, CreateTakesIdKeeps
<1>2. CASE CreateInstance \/ CreateFails \/ CreateAddsRow
  BY <1>2, CreateInstanceKeeps, CreateFailsKeeps, CreateAddsRowKeeps
<1>3. ASSUME NEW s \in Slots, NEW r \in Records, Insert(s, r) PROVE IInv'
  BY <1>3, InsertKeeps
<1>4. ASSUME NEW s \in Slots, NEW i \in Ids, ion_open_dictionary(s, i) PROVE IInv'
  BY <1>4, OpenKeeps DEF ion_open_dictionary, Idle, Objects
<1>5. ASSUME NEW s \in Slots, ion_close_dictionary(s) PROVE IInv'
  BY <1>5, CloseKeeps DEF ion_close_dictionary, Idle, Objects
<1>6. ASSUME NEW s \in Slots, DeleteInstance(s) PROVE IInv'
  BY <1>6, DeleteInstanceKeeps
<1>7. ASSUME NEW r \in Records, CopyIn(r) \/ CopyOut(r) PROVE IInv'
  BY <1>7, CopyKeeps
<1>8. CASE OpenFails \/ OpenEnds \/ CloseFails \/ CloseEnds
  BY <1>8, CopyEndKeeps
<1>9. CASE DeleteRow
  BY <1>9, DeleteRowKeeps
<1>10. CASE CloseAll \/ CloseAllSkips \/ CloseAllNext
  BY <1>10, ScanKeeps
<1>11. CASE CloseAllOpens
  <2>1. opened /\ call = NoCall /\ Found(scan) /\ Local \in Objects
    BY <1>11 DEF CloseAllOpens, IInv, ScanOK, Off, Objects
  <2>2. QED
    BY <1>11, <2>1, OpenKeeps DEF CloseAllOpens
<1>12. CASE CloseAllCloses
  BY <1>12, CloseKeeps DEF CloseAllCloses, Objects
<1>13. CASE CloseAllEnds \/ CloseTable
  BY <1>13, CloseTableKeeps
<1>14. CASE InitTable
  BY <1>14, InitTableKeeps
<1>15. CASE DeleteTable
  BY <1>15, DeleteTableKeeps
<1>16. CASE Crash
  BY <1>16, CrashKeeps
<1>17. CASE UNCHANGED vars
  BY <1>17 DEF vars, tableVars, dictVars, history, IInv, ScanOK, OpenedOK
<1>18. QED
  BY <1>1, <1>2, <1>3, <1>4, <1>5, <1>6, <1>7, <1>8, <1>9, <1>10, <1>11, <1>12, <1>13,
     <1>14, <1>15, <1>16, <1>17 DEF Next

\* The rows of the master table, the ids that objects and calls have, and the
\* count of creations that failed stay consistent: every id of a dictionary,
\* of an object or of a call is below the next id of the file, and the ids
\* above the last row are those of failed creations and of the one under way.
THEOREM LifecycleInvariance == Spec => []IInv
<1>1. QED
  BY InitIInv, NextKeepsIInv, PTL DEF Spec

-----------------------------------------------------------------------------
\* An id is handed out once in the life of a master table, however many
\* dictionaries, objects and records there are, and whatever fails or stops.
THEOREM IdsOnce == Spec => []IdsHandedOutOnce
<1>1. ASSUME IInv PROVE IdsHandedOutOnce
  <2> DEFINE rows == IF table = NoFile THEN << >> ELSE table.rows
  <2>1. TableOK(table, live, gaps, call.op, call.id)
    BY <1>1 DEF IInv
  <2>2. CASE table = NoFile
    <3>1. DOMAIN rows = {}
      BY <2>2
    <3>2. \A i \in live \cup {call.id} : ~(i > 0)
      BY <2>1, <2>2 DEF TableOK, HandedOut
    <3>3. call.op \notin {"create", "created"}
      BY <2>1, <2>2 DEF TableOK
    <3> HIDE DEF rows
    <3>4. QED
      BY <3>1, <3>2, <3>3 DEF IdsHandedOutOnce, rows
  <2>3. CASE table # NoFile
    <3>1. table \in TableFile /\ FileOK(table, live, gaps, call.op, call.id)
      BY <2>1, <2>3 DEF TableOK
    <3>2. rows = table.rows /\ DOMAIN rows = 1 .. Len(table.rows)
      BY <2>3, <3>1, TableFields
    <3>3. \A p \in 1 .. Len(table.rows) : table.rows[p].id \in Nat
      BY <3>1, RowFields
    <3>4. \A i \in live \cup {call.id} : i > 0 => table # NoFile /\ i < table.next
      BY <2>1, <2>3 DEF TableOK, HandedOut
    <3>5. \A p \in DOMAIN rows : rows[p].id > 0 => rows[p].id < table.next
      BY <3>1, <3>2, <3>3 DEF FileOK, RowIds
    <3>6. \A p, q \in DOMAIN rows :
             p < q /\ rows[p].id # 0 /\ rows[q].id # 0 => rows[p].id < rows[q].id
      BY <3>1, <3>2 DEF FileOK, RowsAscend
    <3>7. call.op \in {"create", "created"} => \A p \in DOMAIN rows : rows[p].id < call.id
      BY <3>1, <3>2 DEF FileOK, NewestId, Creating
    <3> HIDE DEF rows
    <3>8. QED
      BY <2>3, <3>4, <3>5, <3>6, <3>7 DEF IdsHandedOutOnce, rows
  <2>4. QED
    BY <2>2, <2>3
<1>2. QED
  BY <1>1, LifecycleInvariance, PTL

\* A row is at most as many positions before its id as creations have failed;
\* with none, every dictionary is found at its id, and nothing else is.
THEOREM RowsFound == Spec => []RowsWhereLookedUp
<1>1. ASSUME IInv PROVE RowsWhereLookedUp
  <2> SUFFICES ASSUME table # NoFile PROVE RowsWhereLookedUp
    BY DEF RowsWhereLookedUp
  <2>1. TableOK(table, live, gaps, call.op, call.id)
    BY <1>1 DEF IInv
  <2>2. table \in TableFile /\ FileOK(table, live, gaps, call.op, call.id)
        /\ live \in SUBSET (Nat \ {0})
    BY <2>1 DEF TableOK
  <2>3. DOMAIN table.rows = 1 .. Len(table.rows)
    BY <2>2, TableFields
  <2>4. \A p \in DOMAIN table.rows :
          LET i == table.rows[p].id IN i # 0 => p <= i /\ i <= p + gaps
    BY <2>2, <2>3 DEF FileOK, RowIds
  <2>5. ASSUME gaps = 0
        PROVE  /\ \A i \in live : Found(i) /\ table.rows[i].id = i
               /\ \A p \in DOMAIN table.rows : table.rows[p].id # 0 => p \in live
    BY <2>2, <2>3, <2>5 DEF FileOK, RowsAreLive, Found
  <2>6. QED
    BY <2>4, <2>5 DEF RowsWhereLookedUp
<1>2. QED
  BY <1>1, LifecycleInvariance, PTL

-----------------------------------------------------------------------------
(***************************************************************************)
(* The records.  What is owed for an id is what its users have put; it is  *)
(* in the instance that is open, and else in the file.  While a call       *)
(* copies, both together hold it, each record once.                        *)
(***************************************************************************)
Bags == [Records -> Nat]

Owed(i) == IF i \in live THEN kept[i] ELSE NoRecords

BagsOK ==
  /\ files \in [Ids -> Bags \cup {NoFile}] /\ kept \in [Ids -> Bags] /\ live \subseteq Ids
  /\ \A s \in Objects : handle[s].held \in Bags
  /\ call.rest \in Bags

\* No object but s is open for id i.
OnlyOpen(s, i) == \A t \in Objects : IsOpen(t) /\ handle[t].id = i => t = s

\* What holds of the object s when it is open for id i.
InUse(s, i) ==
  /\ i \in Ids
  /\ i \in live \/ (call.op = "created" /\ call.id = i)
  /\ call.id = i => call.op \in {"created", "close"}
  /\ IF handle[s].type = SkipList THEN (call.op = "close" /\ call.id = i) \/ OnFile(i) = NoRecords
                                  ELSE files[i] # NoFile
  /\ Contents(s) = Owed(i)
  /\ OnlyOpen(s, i)

OpensOK == \A s \in Objects : IsOpen(s) => InUse(s, handle[s].id)

AtRest == \A i \in Ids : ~HeldOpen(i) => OnFile(i) = Owed(i)

\* The object of an open is not to be used yet, the one of a close still is.
Copying(op, status) == call.op = op =>
  /\ call.id \in live /\ files[call.id] # NoFile
  /\ handle[call.slot].status = status
  /\ handle[call.slot].id = call.id /\ handle[call.slot].type = SkipList

CallsOK ==
  /\ call.op = "none" => call = NoCall
  /\ Creating(call.op) => call.id \in Ids \ live /\ call.type \in Types
  /\ call.op = "created" => IsOpen(call.slot) /\ handle[call.slot].id = call.id
  /\ call.op \in {"create", "delete"} => ~IsOpen(call.slot)
  /\ call.op = "delete" => call.id \in Ids /\ OnFile(call.id) = NoRecords
  /\ Copying("open", "unset") /\ Copying("close", "ok")
  /\ call.op = "open" =>
       \A r \in Records : handle[call.slot].held[r] + call.rest[r] = files[call.id][r]
  /\ call.op = "close" =>
       \A r \in Records : files[call.id][r] + call.rest[r] = handle[call.slot].held[r]

\* close_all is called with every other object closed.
Alone == scan # Off => call.slot = Local /\ \A s \in Slots \ {Local} : ~IsOpen(s)

RecordsOK == BagsOK /\ OpensOK /\ AtRest /\ CallsOK /\ Alone

-----------------------------------------------------------------------------
(***************************************************************************)
(* Bags, and the fields of what an action changes.                         *)
(***************************************************************************)
LEMMA BagSteps ==
  /\ NoRecords \in Bags
  /\ \A b \in Bags, r \in Records : /\ Plus(b, r) \in Bags
                                    /\ b[r] > 0 => Less(b, r) \in Bags
                                    /\ \A q \in Records : /\ Plus(b, r)[q] = IF q = r THEN b[q] + 1 ELSE b[q]
                                                          /\ Less(b, r)[q] = IF q = r THEN b[q] - 1 ELSE b[q]
  BY DEF NoRecords, Bags, Plus, Less

\* A bag is known by its counts.
LEMMA SameBag ==
  ASSUME NEW a \in Bags, NEW b \in Bags, \A r \in Records : a[r] = b[r]
  PROVE  a = b
  BY DEF Bags

Stored(f) == IF f = NoFile THEN NoRecords ELSE f

LEMMA StoredIs ==
  /\ \A i : OnFile(i) = Stored(files[i])
  /\ Stored(NoFile) = NoRecords
  /\ \A b \in Bags : Stored(b) = b /\ b # NoFile
  /\ \A f \in Bags \cup {NoFile} : Stored(f) \in Bags
  BY BagSteps, NoBagAssumption DEF OnFile, Stored, Bags

LEMMA StoredIsNext == \A i : OnFile(i)' = Stored(files'[i])
  BY DEF OnFile, Stored

LEMMA HandleFields ==
  ASSUME NEW d, IsHandle(d), NEW x
  PROVE  LET a == [d EXCEPT !.status = x]
             b == [d EXCEPT !.held = x]
             c == [d EXCEPT !.fresh = x]
         IN /\ a.status = x /\ a.id = d.id /\ a.type = d.type /\ a.held = d.held
            /\ b.status = d.status /\ b.id = d.id /\ b.type = d.type /\ b.held = x
            /\ c.status = d.status /\ c.id = d.id /\ c.type = d.type /\ c.held = d.held
<1> DEFINE e == [status |-> d.status, id |-> d.id, type |-> d.type, held |-> d.held, fresh |-> d.fresh]
<1>1. d = e
  BY DEF IsHandle
<1>2. [e EXCEPT !.status = x]
        = [status |-> x, id |-> d.id, type |-> d.type, held |-> d.held, fresh |-> d.fresh]
  OBVIOUS
<1>3. [e EXCEPT !.held = x]
        = [status |-> d.status, id |-> d.id, type |-> d.type, held |-> x, fresh |-> d.fresh]
  OBVIOUS
<1>4. [e EXCEPT !.fresh = x]
        = [status |-> d.status, id |-> d.id, type |-> d.type, held |-> d.held, fresh |-> x]
  OBVIOUS
<1> HIDE DEF e
<1>5. QED
  BY <1>1, <1>2, <1>3, <1>4

LEMMA NewFields ==
  ASSUME NEW status, NEW i, NEW type, NEW held
  PROVE  LET d == Handle(status, i, type, held)
         IN d.status = status /\ d.id = i /\ d.type = type /\ d.held = held
  BY DEF Handle

LEMMA BlankFields == NoHandle.status = "unset" /\ NoHandle.held = NoRecords
  BY NewFields DEF NoHandle

LEMMA CallFields ==
  ASSUME NEW op, NEW s, NEW i, NEW type, NEW rest
  PROVE  LET c == Call(op, s, i, type, rest)
         IN /\ c.op = op /\ c.slot = s /\ c.id = i /\ c.type = type /\ c.rest = rest
            /\ \A x : /\ [c EXCEPT !.op = x] = Call(x, s, i, type, rest)
                      /\ [c EXCEPT !.rest = x] = Call(op, s, i, type, x)
  BY DEF Call

LEMMA NoCallFields ==
  NoCall.op = "none" /\ NoCall.id = 0 /\ NoCall.slot = Local /\ NoCall.rest = NoRecords
  BY CallFields DEF NoCall

-----------------------------------------------------------------------------
(***************************************************************************)
(* A step is about one id and one object.                                  *)
(***************************************************************************)

\* The object d and the file f of id i are as owed while call c is under way.
Rightly(d, i, f, owed, alive, c) ==
  IF d.status = "ok"
    THEN /\ d.id = i
         /\ alive \/ (c.op = "created" /\ c.id = i)
         /\ c.id = i => c.op \in {"created", "close"}
         /\ IF d.type = SkipList
              THEN ((c.op = "close" /\ c.id = i) \/ Stored(f) = NoRecords) /\ d.held = owed
              ELSE f # NoFile /\ f = owed
    ELSE Stored(f) = owed

LEMMA OneId ==
  ASSUME RecordsOK, HandlesOK(table, handle), NEW x \in Objects, NEW i \in Ids, OnlyOpen(x, i),
         IsOpen(x) => handle[x].id = i, call.id \in {0, i},
         NEW d, handle' = [handle EXCEPT ![x] = d], d.held \in Bags,
         NEW f \in Bags \cup {NoFile}, files' = [files EXCEPT ![i] = f],
         NEW k \in Bags, kept' = [kept EXCEPT ![i] = k],
         live' \subseteq Ids, live' \ {i} = live \ {i},
         call'.id \in {0, i}, call'.rest \in Bags,
         Rightly(d, i, f, IF i \in live' THEN k ELSE NoRecords, i \in live', call')
  PROVE  BagsOK' /\ OpensOK' /\ AtRest'
<1>1. /\ handle'[x] = d
      /\ \A s \in Objects : s # x => handle'[s] = handle[s]
  BY DEF HandlesOK
<1>2. /\ files'[i] = f /\ kept'[i] = k
      /\ \A j \in Ids : j # i => files'[j] = files[j] /\ kept'[j] = kept[j] /\ (j \in live' <=> j \in live)
      /\ files' \in [Ids -> Bags \cup {NoFile}] /\ kept' \in [Ids -> Bags]
  BY DEF RecordsOK, BagsOK
<1>3. BagsOK'
  BY <1>1, <1>2 DEF RecordsOK, BagsOK
<1>4. \A j \in Ids : j # i => OnFile(j)' = OnFile(j) /\ Owed(j)' = Owed(j)
  BY <1>2, StoredIs, StoredIsNext DEF Owed
<1>5. OnFile(i)' = Stored(f) /\ Owed(i)' = IF i \in live' THEN k ELSE NoRecords
  BY <1>2, StoredIsNext DEF Owed
<1>6. \A t \in Objects : IsOpen(t)' /\ handle'[t].id = i => t = x
  BY <1>1 DEF OnlyOpen, IsOpen
<1>7. ASSUME NEW s \in Objects, IsOpen(s)' PROVE InUse(s, handle[s].id)'
  <2>1. CASE s = x
    <3>1. d.status = "ok" /\ d.id = i /\ handle'[s].id = i
      BY <1>1, <1>7, <2>1 DEF IsOpen, Rightly
    <3>2. Contents(s)' = Owed(i)'
      BY <1>1, <1>2, <1>5, <2>1, <3>1, StoredIs DEF Contents, Rightly
    <3>3. OnlyOpen(s, i)'
      BY <1>6, <2>1 DEF OnlyOpen
    <3>4. IF handle'[s].type = SkipList THEN (call'.op = "close" /\ call'.id = i) \/ OnFile(i)' = NoRecords
                                        ELSE files'[i] # NoFile
      BY <1>1, <1>2, <1>5, <2>1, <3>1 DEF Rightly
    <3>5. /\ i \in live' \/ (call'.op = "created" /\ call'.id = i)
          /\ call'.id = i => call'.op \in {"created", "close"}
      BY <3>1 DEF Rightly
    <3>6. QED
      BY <3>1, <3>2, <3>3, <3>4, <3>5 DEF InUse
  <2>2. CASE s # x
    <3>0. PICK j : j = handle[s].id
      OBVIOUS
    <3>1. handle'[s] = handle[s] /\ IsOpen(s) /\ InUse(s, j) /\ j # i /\ j \in Ids
      BY <1>1, <1>7, <2>2, <3>0 DEF IsOpen, OnlyOpen, InUse, RecordsOK, OpensOK
    <3>2. j # 0
      BY <3>1 DEF Ids
    <3>3. j \in live' /\ call'.id # j /\ call.id # j
      BY <1>2, <3>1, <3>2 DEF InUse
    <3>4. OnlyOpen(s, j)'
      <4>1. ASSUME NEW t \in Objects, IsOpen(t)', handle'[t].id = j PROVE t = s
        <5>1. t # x
          BY <1>1, <3>1, <4>1 DEF IsOpen, Rightly
        <5>2. handle'[t] = handle[t]
          BY <1>1, <5>1
        <5>3. IsOpen(t) /\ handle[t].id = j
          BY <4>1, <5>2 DEF IsOpen
        <5>4. QED
          BY <3>1, <5>3 DEF InUse, OnlyOpen
      <4>2. QED
        BY <4>1 DEF OnlyOpen
    <3>5. Contents(s)' = Contents(s) /\ files'[j] = files[j]
      BY <1>2, <1>4, <3>0, <3>1 DEF Contents
    <3>6. QED
      <4>1. InUse(s, j)'
        BY <1>4, <3>1, <3>3, <3>4, <3>5 DEF InUse
      <4>2. j = handle'[s].id
        BY <3>0, <3>1
      <4>3. QED
        BY <4>1, <4>2
  <2>3. QED
    BY <2>1, <2>2
<1>8. ASSUME NEW j \in Ids, ~HeldOpen(j)' PROVE OnFile(j)' = Owed(j)'
  <2>1. \A t \in Objects : ~(IsOpen(t)' /\ handle'[t].id = j)
    BY <1>8 DEF HeldOpen
  <2>2. CASE j = i
    <3>1. d.status # "ok"
      BY <1>1, <2>1, <2>2 DEF IsOpen, Rightly
    <3>2. QED
      BY <1>5, <2>2, <3>1 DEF Rightly
  <2>3. CASE j # i
    <3>1. \A t \in Objects : ~(IsOpen(t) /\ handle[t].id = j)
      BY <1>1, <2>1, <2>3 DEF IsOpen
    <3>2. ~HeldOpen(j)
      BY <3>1 DEF HeldOpen
    <3>3. QED
      BY <1>4, <2>3, <3>2 DEF RecordsOK, AtRest
  <2>4. QED
    BY <2>2, <2>3
<1>9. QED
  BY <1>3, <1>7, <1>8 DEF OpensOK, AtRest

\* The same when the files, or what users have put, stay as they are.
LEMMA SameEntry ==
  ASSUME NEW D, NEW R, NEW g \in [D -> R], NEW i \in D
  PROVE  g = [g EXCEPT ![i] = g[i]] /\ g[i] \in R
  OBVIOUS

LEMMA Ended ==
  ASSUME call' = NoCall
  PROVE  CallsOK' /\ call'.op = "none" /\ call'.id = 0 /\ call'.slot = Local /\ call'.rest \in Bags
  BY NoCallFields, BagSteps DEF CallsOK, Copying, Creating

LEMMA AloneKept ==
  ASSUME Alone, HandlesOK(table, handle), NEW x \in Objects, NEW d, handle' = [handle EXCEPT ![x] = d],
         scan' \in {scan, Off}, scan # Off => x = Local /\ call'.slot = Local
  PROVE  Alone'
<1>1. \A s \in Slots \ {Local} : s \in Objects
  BY DEF Objects
<1>2. scan # Off => \A s \in Slots \ {Local} : handle'[s] = handle[s]
  BY <1>1 DEF HandlesOK
<1>3. QED
  BY <1>2 DEF Alone, IsOpen

\* What is at hand while no call is under way.
LEMMA QuietFacts ==
  ASSUME RecordsOK, call.op = "none"
  PROVE  /\ call = NoCall /\ call.id = 0 /\ call.slot = Local
         /\ \A s \in Objects : IsOpen(s) =>
              handle[s].id \in live /\ InUse(s, handle[s].id)
  BY NoCallFields DEF RecordsOK, CallsOK, OpensOK, InUse

LEMMA RowOf ==
  ASSUME IInv, gaps = 0, opened, NEW p, Found(p)
  PROVE  p \in live /\ table.rows[p].id = p
  BY DEF IInv, OpenedOK, TableOK, FileOK, RowsAreLive, Found

-----------------------------------------------------------------------------
(***************************************************************************)
(* The actions on one dictionary.                                          *)
(***************************************************************************)

LEMMA TakesIdRecords ==
  ASSUME IInv, RecordsOK, gaps = 0, NEW s \in Slots, NEW type \in Types, CreateTakesId(s, type)
  PROVE  RecordsOK'
<1>1. /\ call = NoCall /\ scan = Off /\ opened /\ next_id <= MaxId /\ ~IsOpen(s)
      /\ call' = Call("create", s, next_id, type, NoRecords)
      /\ UNCHANGED <<files, handle, scan, live, kept>>
  BY DEF CreateTakesId, Idle, history
<1>2. PICK i : i = next_id
  OBVIOUS
<1>3. i \in Ids /\ i \notin live
  <2>1. table \in TableFile /\ i = table.next /\ FileOK(table, live, gaps, call.op, call.id)
    BY <1>1, <1>2, OpenTable, NoFileIsNoTable DEF IInv, TableOK
  <2>2. table.next \in Nat /\ Len(table.rows) \in Nat /\ table # NoFile
    BY <2>1, TableFields, NoFileIsNoTable
  <2>3. i > 0
    BY <2>1, <2>2, <1>1, NoCallFields, Reservations DEF FileOK, IdsAboveRows
  <2>4. \A j \in live : j \in Nat /\ (j > 0 => j < table.next)
    BY DEF IInv, TableOK, HandedOut
  <2>5. i \notin live
    BY <2>1, <2>2, <2>3, <2>4
  <2>6. i \in Nat /\ i <= MaxId
    BY <1>1, <1>2, <2>1, <2>2
  <2>7. QED
    BY <2>3, <2>5, <2>6 DEF Ids
<1>4. call.op = "none" /\ call.id = 0 /\ s \in Objects
  BY <1>1, NoCallFields DEF Objects
<1>5. \A t \in Objects : IsOpen(t) => handle[t].id \in live
  BY <1>4, QuietFacts
<1>6. OnlyOpen(s, i) /\ OnFile(i) = NoRecords
  <2>1. ~HeldOpen(i)
    BY <1>3, <1>5 DEF HeldOpen
  <2>2. QED
    BY <1>3, <2>1 DEF RecordsOK, AtRest, Owed, HeldOpen, OnlyOpen
<1>7. /\ call'.op = "create" /\ call'.slot = s /\ call'.id = i
      /\ call'.type = type /\ call'.rest = NoRecords
  BY <1>1, <1>2, CallFields
<1>8. BagsOK' /\ OpensOK' /\ AtRest'
  <2>1. PICK d, f, k : d = handle[s] /\ f = files[i] /\ k = kept[i]
    OBVIOUS
  <2>2. handle' = [handle EXCEPT ![s] = d] /\ HandlesOK(table, handle) /\ d.held \in Bags
    BY <1>1, <1>4, <2>1 DEF IInv, HandlesOK, RecordsOK, BagsOK
  <2>3. files' = [files EXCEPT ![i] = f] /\ f \in Bags \cup {NoFile}
        /\ kept' = [kept EXCEPT ![i] = k] /\ k \in Bags /\ live' \subseteq Ids /\ live' = live
    BY <1>1, <1>3, <2>1 DEF RecordsOK, BagsOK
  <2>4. Rightly(d, i, f, IF i \in live' THEN k ELSE NoRecords, i \in live', call')
    BY <1>1, <1>3, <1>6, <2>1, <2>3, StoredIs DEF Rightly, IsOpen
  <2>5. call.id \in {0, i} /\ call'.id \in {0, i} /\ call'.rest \in Bags
        /\ (IsOpen(s) => handle[s].id = i)
    BY <1>1, <1>4, <1>7, BagSteps
  <2>6. QED
    BY <1>3, <1>4, <1>6, <2>2, <2>3, <2>4, <2>5, OneId
<1>9. CallsOK'
  BY <1>1, <1>3, <1>4, <1>7 DEF CallsOK, Copying, Creating, IsOpen
<1>10. Alone'
  BY <1>1 DEF Alone
<1>11. QED
  BY <1>8, <1>9, <1>10 DEF RecordsOK

LEMMA InstanceRecords ==
  ASSUME IInv, RecordsOK, CreateInstance
  PROVE  RecordsOK'
<1> DEFINE h == Handle("ok", call.id, call.type, NoRecords)
<1>1. PICK x, i, d : x = call.slot /\ i = call.id /\ d = [h EXCEPT !.fresh = TRUE]
  OBVIOUS
<1>2. /\ call.op = "create" /\ call' = [call EXCEPT !.op = "created"]
      /\ handle' = [handle EXCEPT ![x] = d]
      /\ files' = IF call.type = FlatFile THEN [files EXCEPT ![i] = OnFile(i)] ELSE files
      /\ UNCHANGED <<scan, live, kept>>
  BY <1>1 DEF CreateInstance, history
<1>3. x \in Objects /\ i \in Ids /\ i \notin live /\ ~IsOpen(x) /\ scan = Off
  BY <1>1, <1>2, IdsAtHand DEF RecordsOK, CallsOK, Creating, IInv, ScanOK
<1>4. d.status = "ok" /\ d.id = i /\ d.type = call.type /\ d.held = NoRecords
  <2>1. IsHandle(h)
    BY IdsAtHand, NewHandle
  <2>2. h.status = "ok" /\ h.id = i /\ h.type = call.type /\ h.held = NoRecords
    BY <1>1, NewFields
  <2> HIDE DEF h
  <2>3. QED
    BY <1>1, <2>1, <2>2, HandleFields
<1>5. /\ call'.op = "created" /\ call'.slot = x /\ call'.id = i /\ call'.rest = call.rest
  <2>1. call = Call(call.op, call.slot, call.id, call.type, call.rest)
    BY DEF IInv, IsCall
  <2>2. call' = Call("created", call.slot, call.id, call.type, call.rest)
    BY <1>2, <2>1, CallFields
  <2>3. QED
    BY <1>1, <2>2, CallFields
<1>6. \A t \in Objects : ~(IsOpen(t) /\ handle[t].id = i)
  BY <1>1, <1>2, <1>3 DEF RecordsOK, OpensOK, InUse
<1>7. OnlyOpen(x, i) /\ OnFile(i) = NoRecords
  BY <1>3, <1>6 DEF RecordsOK, AtRest, Owed, HeldOpen, OnlyOpen
<1>8. call.type \in {SkipList, FlatFile} /\ SkipList # FlatFile
  BY <1>2 DEF RecordsOK, CallsOK, Creating, Types, SkipList, FlatFile
<1>9. PICK f \in Bags \cup {NoFile} :
        files' = [files EXCEPT ![i] = f] /\ Stored(f) = NoRecords
        /\ (d.type # SkipList => f = NoRecords)
  <2>1. CASE call.type = FlatFile
    <3>1. files' = [files EXCEPT ![i] = NoRecords]
      BY <1>2, <1>7, <2>1
    <3>2. QED
      BY <1>4, <2>1, <3>1, BagSteps, StoredIs
  <2>2. CASE call.type # FlatFile
    <3>1. files' = [files EXCEPT ![i] = files[i]] /\ files[i] \in Bags \cup {NoFile}
      BY <1>2, <1>3, <2>2, SameEntry DEF RecordsOK, BagsOK
    <3>2. QED
      BY <1>4, <1>7, <1>8, <2>2, <3>1, StoredIs
  <2>3. QED
    BY <2>1, <2>2
<1>10. BagsOK' /\ OpensOK' /\ AtRest'
  <2>1. PICK k : k = kept[i]
    OBVIOUS
  <2>2. kept' = [kept EXCEPT ![i] = k] /\ k \in Bags /\ live' \subseteq Ids /\ live' = live /\ call.rest \in Bags
    BY <1>2, <1>3, <2>1 DEF RecordsOK, BagsOK
  <2>3. Rightly(d, i, f, IF i \in live' THEN k ELSE NoRecords, i \in live', call')
    BY <1>3, <1>4, <1>5, <1>9, <2>2, BagSteps, StoredIs DEF Rightly
  <2>4. call.id \in {0, i} /\ call'.id \in {0, i} /\ call'.rest \in Bags /\ d.held \in Bags
        /\ HandlesOK(table, handle)
    BY <1>1, <1>4, <1>5, <2>2, BagSteps DEF IInv
  <2>5. QED
    BY <1>2, <1>3, <1>7, <1>9, <2>2, <2>3, <2>4, OneId
<1>11. CallsOK'
  <2>1. handle'[x] = d
    BY <1>2, <1>3 DEF IInv, HandlesOK
  <2>2. call'.type \in Types
    <3>1. call'.type = call.type
      <4>1. call = Call(call.op, call.slot, call.id, call.type, call.rest)
        BY DEF IInv, IsCall
      <4>2. QED
        BY <1>2, <4>1, CallFields
    <3>2. QED
      BY <1>8, <3>1 DEF Types
  <2>3. QED
    BY <1>2, <1>3, <1>4, <1>5, <2>1, <2>2 DEF CallsOK, Copying, Creating, IsOpen
<1>12. Alone'
  BY <1>2, <1>3 DEF Alone
<1>13. QED
  BY <1>10, <1>11, <1>12 DEF RecordsOK

LEMMA AddsRowRecords ==
  ASSUME IInv, RecordsOK, CreateAddsRow
  PROVE  RecordsOK'
<1>1. PICK x, i, d : x = call.slot /\ i = call.id /\ d = handle[x]
  OBVIOUS
<1>2. /\ call.op = "created" /\ call' = NoCall
      /\ live' = live \cup {i} /\ kept' = [kept EXCEPT ![i] = NoRecords]
      /\ UNCHANGED <<files, handle, scan>>
  BY <1>1 DEF CreateAddsRow
<1>3. x \in Objects /\ i \in Ids /\ i \notin live /\ IsOpen(x) /\ d.id = i /\ scan = Off
  BY <1>1, <1>2, IdsAtHand DEF RecordsOK, CallsOK, Creating, IInv, ScanOK
<1>4. InUse(x, i)
  BY <1>1, <1>3 DEF RecordsOK, OpensOK
<1>5. CallsOK' /\ call'.op = "none" /\ call'.id = 0 /\ call'.rest \in Bags
  BY <1>2, Ended
<1>6. BagsOK' /\ OpensOK' /\ AtRest'
  <2>1. handle' = [handle EXCEPT ![x] = d] /\ HandlesOK(table, handle) /\ d.held \in Bags
    BY <1>1, <1>2, <1>3 DEF IInv, HandlesOK, RecordsOK, BagsOK
  <2>2. files' = [files EXCEPT ![i] = files[i]] /\ files[i] \in Bags \cup {NoFile} /\ live' \subseteq Ids
    BY <1>2, <1>3, SameEntry DEF RecordsOK, BagsOK
  <2>3. Rightly(d, i, files[i], IF i \in live' THEN NoRecords ELSE NoRecords, i \in live', call')
    <3>1. i # 0
      BY <1>3 DEF Ids
    <3>2. d.status = "ok" /\ Contents(x) = NoRecords /\ OnFile(i) = Stored(files[i])
      BY <1>1, <1>3, <1>4, StoredIs DEF InUse, Owed, IsOpen
    <3>3. d.type # SkipList => files[i] = OnFile(i) /\ files[i] # NoFile
      BY <1>1, <1>3, <1>4 DEF InUse, OnFile
    <3>4. CASE d.type = SkipList
      BY <1>1, <1>2, <1>3, <1>4, <1>5, <3>1, <3>2, <3>4 DEF Rightly, InUse, Contents
    <3>5. CASE d.type # SkipList
      BY <1>1, <1>2, <1>3, <1>5, <3>1, <3>2, <3>3, <3>5 DEF Rightly, Contents
    <3>6. QED
      BY <3>4, <3>5
  <2>4. QED
    BY <1>1, <1>2, <1>3, <1>4, <1>5, <2>1, <2>2, <2>3, OneId, BagSteps DEF InUse
<1>7. Alone'
  BY <1>2, <1>3 DEF Alone
<1>8. QED
  BY <1>5, <1>6, <1>7 DEF RecordsOK

LEMMA InsertRecords ==
  ASSUME IInv, RecordsOK, NEW s \in Slots, NEW r \in Records, Insert(s, r)
  PROVE  RecordsOK'
<1>1. PICK i, d : i = handle[s].id /\ d = handle'[s]
  OBVIOUS
<1>2. /\ call = NoCall /\ scan = Off /\ IsOpen(s) /\ s \in Objects
      /\ kept' = [kept EXCEPT ![i] = Plus(kept[i], r)]
      /\ UNCHANGED <<call, scan, live>>
  BY <1>1 DEF Insert, Idle, Objects
<1>3. call.op = "none" /\ call.id = 0 /\ call.rest \in Bags
  BY <1>2, NoCallFields, BagSteps
<1>4. i \in live /\ i \in Ids /\ InUse(s, i) /\ i # 0
  BY <1>1, <1>2, <1>3, QuietFacts DEF InUse, Ids
<1>5. /\ kept[i] \in Bags /\ Plus(kept[i], r) \in Bags /\ handle[s].held \in Bags
      /\ files[i] \in Bags \cup {NoFile} /\ IsHandle(handle[s]) /\ HandlesOK(table, handle)
      /\ live \subseteq Ids
  BY <1>2, <1>4, BagSteps DEF RecordsOK, BagsOK, IInv, HandlesOK
<1>6. PICK f \in Bags \cup {NoFile} :
        /\ handle' = [handle EXCEPT ![s] = d] /\ d.held \in Bags /\ d.status = "ok" /\ d.id = i
        /\ files' = [files EXCEPT ![i] = f]
        /\ d.type = handle[s].type
        /\ IF d.type = SkipList THEN Stored(f) = NoRecords /\ d.held = Plus(kept[i], r)
                                ELSE f # NoFile /\ f = Plus(kept[i], r)
  <2>1. CASE handle[s].type = SkipList
    <3> DEFINE x == Plus(handle[s].held, r)
    <3>1. handle' = [handle EXCEPT ![s].held = x] /\ files' = files
      BY <2>1 DEF Insert
    <3>2. x = Plus(kept[i], r) /\ x \in Bags /\ OnFile(i) = NoRecords
      BY <1>3, <1>4, <1>5, <2>1 DEF InUse, Contents, Owed
    <3> HIDE DEF x
    <3>3. d = [handle[s] EXCEPT !.held = x]
      BY <1>1, <1>2, <3>1 DEF IInv, HandlesOK
    <3>4. handle' = [handle EXCEPT ![s] = d]
      BY <3>1, <3>3
    <3>5. d.held = x /\ d.status = handle[s].status /\ d.id = i /\ d.type = handle[s].type
      BY <1>1, <1>5, <3>3, HandleFields
    <3>6. files' = [files EXCEPT ![i] = files[i]]
      BY <1>4, <3>1 DEF RecordsOK, BagsOK
    <3>7. QED
      BY <1>2, <1>5, <2>1, <3>2, <3>4, <3>5, <3>6, StoredIs DEF IsOpen
  <2>2. CASE handle[s].type # SkipList
    <3>1. handle' = handle /\ files' = [files EXCEPT ![i] = Plus(files[i], r)]
      BY <1>1, <2>2 DEF Insert
    <3>2. files[i] = kept[i]
      <4>1. files[i] # NoFile /\ Contents(s) = kept[i] /\ Contents(s) = OnFile(handle[s].id)
        BY <1>4, <2>2 DEF InUse, Contents, Owed
      <4>2. QED
        BY <1>1, <4>1 DEF OnFile
    <3>3. handle' = [handle EXCEPT ![s] = d] /\ d = handle[s]
      BY <1>1, <1>2, <3>1 DEF IInv, HandlesOK
    <3>4. QED
      BY <1>1, <1>2, <1>5, <2>2, <3>1, <3>2, <3>3, StoredIs DEF IsOpen
  <2>3. QED
    BY <2>1, <2>2
<1>7. BagsOK' /\ OpensOK' /\ AtRest'
  <2>1. Rightly(d, i, f, IF i \in live' THEN Plus(kept[i], r) ELSE NoRecords, i \in live', call')
    BY <1>2, <1>3, <1>4, <1>6 DEF Rightly
  <2>2. QED
    BY <1>1, <1>2, <1>3, <1>4, <1>5, <1>6, <2>1, OneId DEF InUse
<1>8. CallsOK' /\ Alone'
  BY <1>2, Ended DEF Alone
<1>9. QED
  BY <1>7, <1>8 DEF RecordsOK

\* What is known of the id, the object and the file of a copy under way.
LEMMA CopyFacts ==
  ASSUME IInv, RecordsOK, call.op \in {"open", "close"}
  PROVE  /\ call.slot \in Objects /\ call.id \in Ids /\ call.id \in live /\ call.id # 0
         /\ handle[call.slot].id = call.id /\ handle[call.slot].type = SkipList
         /\ IsHandle(handle[call.slot]) /\ handle[call.slot].held \in Bags
         /\ files[call.id] \in Bags /\ files[call.id] # NoFile
         /\ kept[call.id] \in Bags /\ call.rest \in Bags /\ live \subseteq Ids
         /\ OnlyOpen(call.slot, call.id)
         /\ IF call.op = "open"
              THEN /\ handle[call.slot].status = "unset" /\ files[call.id] = kept[call.id]
                   /\ ~HeldOpen(call.id)
                   /\ \A r \in Records : handle[call.slot].held[r] + call.rest[r] = files[call.id][r]
              ELSE /\ handle[call.slot].status = "ok" /\ handle[call.slot].held = kept[call.id]
                   /\ \A r \in Records : files[call.id][r] + call.rest[r] = handle[call.slot].held[r]
<1>1. PICK x, i : x = call.slot /\ i = call.id
  OBVIOUS
<1>2. /\ x \in Objects /\ i \in live /\ files[i] # NoFile /\ live \subseteq Ids
      /\ handle[x].id = i /\ handle[x].type = SkipList
      /\ handle[x].status = IF call.op = "open" THEN "unset" ELSE "ok"
  BY <1>1, IdsAtHand DEF RecordsOK, CallsOK, Copying, BagsOK
<1>3. i \in Ids /\ i # 0
  BY <1>2 DEF Ids
<1>4. /\ files[i] \in Bags /\ kept[i] \in Bags /\ call.rest \in Bags /\ handle[x].held \in Bags
      /\ IsHandle(handle[x])
  BY <1>2, <1>3 DEF RecordsOK, BagsOK, IInv, HandlesOK
<1>5. CASE call.op = "open"
  <2>1. \A t \in Objects : ~(IsOpen(t) /\ handle[t].id = i)
    BY <1>1, <1>5 DEF RecordsOK, OpensOK, InUse
  <2>2. OnFile(i) = Owed(i) /\ ~HeldOpen(i) /\ OnlyOpen(x, i)
    BY <1>3, <2>1 DEF HeldOpen, RecordsOK, AtRest, OnlyOpen
  <2>3. files[i] = kept[i]
    BY <1>2, <2>2 DEF OnFile, Owed
  <2>4. QED
    BY <1>1, <1>2, <1>3, <1>4, <1>5, <2>2, <2>3 DEF RecordsOK, CallsOK
<1>6. CASE call.op = "close"
  <2>1. InUse(x, i)
    BY <1>2, <1>6 DEF RecordsOK, OpensOK, IsOpen
  <2>2. handle[x].held = kept[i] /\ OnlyOpen(x, i)
    BY <1>2, <2>1 DEF InUse, Contents, Owed
  <2>3. QED
    BY <1>1, <1>2, <1>3, <1>4, <1>6, <2>2 DEF RecordsOK, CallsOK
<1>7. QED
  BY <1>5, <1>6

\* dictionary_open, by the program and by ion_close_all_master_table.
LEMMA OpenRecords ==
  ASSUME IInv, RecordsOK, gaps = 0, opened, call = NoCall, NEW s \in Objects, ~IsOpen(s),
         NEW p, Found(p), ~HeldOpen(p), dictionary_open(s, table.rows[p]),
         UNCHANGED <<tableVars, scan, history>>, scan # Off => s = Local
  PROVE  RecordsOK'
<1>1. p \in live /\ table.rows[p].id = p
  BY RowOf
<1>2. PICK k, type : k = kept[p] /\ type = table.rows[p].type
  OBVIOUS
<1>3. /\ files' = [files EXCEPT ![p] = OnFile(p)] /\ UNCHANGED <<scan, live, kept>>
      /\ p \in Ids /\ p # 0 /\ live \subseteq Ids
      /\ kept' = [kept EXCEPT ![p] = k] /\ k \in Bags /\ HandlesOK(table, handle)
  BY <1>1, <1>2 DEF dictionary_open, history, RecordsOK, BagsOK, Ids, IInv
<1>4. OnFile(p) = k /\ OnlyOpen(s, p) /\ files' = [files EXCEPT ![p] = k]
  BY <1>1, <1>2, <1>3 DEF RecordsOK, AtRest, Owed, HeldOpen, OnlyOpen
<1>5. call.op = "none" /\ call.id = 0
  BY NoCallFields
<1>6. CASE type = SkipList
  <2>1. PICK d : d = Handle("unset", p, type, NoRecords)
    OBVIOUS
  <2>2. d.status = "unset" /\ d.id = p /\ d.type = type /\ d.held = NoRecords
    BY <2>1, NewFields
  <2>3. /\ call' = Call("open", s, p, type, k)
        /\ handle' = [handle EXCEPT ![s] = d]
    BY <1>1, <1>2, <1>4, <1>6, <2>1 DEF dictionary_open
  <2>4. call'.op = "open" /\ call'.slot = s /\ call'.id = p /\ call'.rest = k
    BY <2>3, CallFields
  <2>5. Rightly(d, p, k, IF p \in live' THEN k ELSE NoRecords, p \in live', call')
    BY <1>1, <1>3, <2>2, StoredIs DEF Rightly
  <2>6. BagsOK' /\ OpensOK' /\ AtRest'
    <3>1. /\ d.held \in Bags /\ call'.rest \in Bags /\ live' \subseteq Ids /\ live' \ {p} = live \ {p}
          /\ IsOpen(s) => handle[s].id = p
          /\ call.id \in {0, p} /\ call'.id \in {0, p} /\ k \in Bags \cup {NoFile}
      BY <1>3, <1>5, <2>2, <2>4, BagSteps
    <3>2. QED
      BY <1>3, <1>4, <2>3, <2>5, <3>1, OneId
  <2>7. CallsOK'
    <3>1. handle'[s] = d /\ files'[p] = k /\ k # NoFile
      BY <1>3, <1>4, <2>3, StoredIs DEF HandlesOK, RecordsOK, BagsOK
    <3>2. \A r \in Records : d.held[r] + k[r] = k[r]
      BY <1>3, <2>2 DEF NoRecords, Bags
    <3>3. QED
      BY <1>1, <1>3, <1>6, <2>2, <2>4, <3>1, <3>2 DEF CallsOK, Copying, Creating
  <2>8. Alone'
    BY <1>3, <2>3, <2>4, AloneKept DEF RecordsOK
  <2>9. QED
    BY <2>6, <2>7, <2>8 DEF RecordsOK
<1>7. CASE type # SkipList
  <2>1. PICK d : d = Handle("ok", p, type, NoRecords)
    OBVIOUS
  <2>2. d.status = "ok" /\ d.id = p /\ d.type = type /\ d.held = NoRecords
    BY <2>1, NewFields
  <2>3. call' = NoCall /\ handle' = [handle EXCEPT ![s] = d]
    BY <1>1, <1>2, <1>7, <2>1 DEF dictionary_open
  <2>4. CallsOK' /\ call'.op = "none" /\ call'.id = 0 /\ call'.slot = Local /\ call'.rest \in Bags
    BY <2>3, Ended
  <2>5. Rightly(d, p, k, IF p \in live' THEN k ELSE NoRecords, p \in live', call')
    BY <1>1, <1>3, <1>7, <2>2, <2>4, StoredIs DEF Rightly
  <2>6. BagsOK' /\ OpensOK' /\ AtRest'
    <3>1. /\ d.held \in Bags /\ call'.rest \in Bags /\ live' \subseteq Ids /\ live' \ {p} = live \ {p}
          /\ IsOpen(s) => handle[s].id = p
          /\ call.id \in {0, p} /\ call'.id \in {0, p} /\ k \in Bags \cup {NoFile}
      BY <1>3, <1>5, <2>2, <2>4, BagSteps
    <3>2. QED
      BY <1>3, <1>4, <2>3, <2>5, <3>1, OneId
  <2>7. Alone'
    BY <1>3, <2>3, <2>4, AloneKept DEF RecordsOK
  <2>8. QED
    BY <2>4, <2>6, <2>7 DEF RecordsOK
<1>8. QED
  BY <1>6, <1>7

LEMMA CopyInRecords ==
  ASSUME IInv, RecordsOK, NEW r \in Records, CopyIn(r)
  PROVE  RecordsOK'
<1>1. PICK x, i, k, c, b : /\ x = call.slot /\ i = call.id /\ k = kept[i]
                        /\ c = Less(call.rest, r) /\ b = Plus(handle[x].held, r)
  OBVIOUS
<1>2. PICK d : d = [handle[x] EXCEPT !.held = b]
  OBVIOUS
<1>3. /\ call.op = "open" /\ call.rest[r] > 0
      /\ call' = [call EXCEPT !.rest = c] /\ UNCHANGED <<files, scan, live, kept>>
      /\ handle' = [handle EXCEPT ![x] = d]
  BY <1>1, <1>2 DEF CopyIn, history
<1>4. /\ x \in Objects /\ i \in Ids /\ i \in live /\ handle[x].id = i /\ handle[x].type = SkipList
      /\ IsHandle(handle[x]) /\ handle[x].held \in Bags /\ files[i] = k /\ k \in Bags /\ k # NoFile
      /\ call.rest \in Bags /\ live \subseteq Ids /\ OnlyOpen(x, i) /\ handle[x].status = "unset"
      /\ \A q \in Records : handle[x].held[q] + call.rest[q] = files[i][q]
  BY <1>1, <1>3, CopyFacts
<1>5. /\ call'.op = "open" /\ call'.slot = x /\ call'.id = i /\ call'.rest = c /\ c \in Bags
  <2>1. call = Call(call.op, call.slot, call.id, call.type, call.rest)
    BY DEF IInv, IsCall
  <2>2. call' = Call("open", x, i, call.type, c)
    BY <1>1, <1>3, <2>1, CallFields
  <2>3. QED
    BY <1>1, <1>3, <1>4, <2>2, CallFields, BagSteps
<1>6. d.status = "unset" /\ d.id = i /\ d.type = SkipList /\ d.held = b /\ b \in Bags
  BY <1>1, <1>2, <1>4, HandleFields, BagSteps
<1>7. kept' = [kept EXCEPT ![i] = k] /\ files' = [files EXCEPT ![i] = k] /\ HandlesOK(table, handle)
  BY <1>1, <1>3, <1>4 DEF RecordsOK, BagsOK, IInv
<1>8. Rightly(d, i, k, IF i \in live' THEN k ELSE NoRecords, i \in live', call')
  BY <1>3, <1>4, <1>6, StoredIs DEF Rightly
<1>9. BagsOK' /\ OpensOK' /\ AtRest'
  BY <1>1, <1>3, <1>4, <1>5, <1>6, <1>7, <1>8, OneId
<1>10. CallsOK'
  <2>1. handle'[x] = d /\ files'[i] = files[i]
    BY <1>3, <1>4, <1>7 DEF HandlesOK
  <2>2. ASSUME NEW q \in Records PROVE b[q] + c[q] = files[i][q]
    <3>1. handle[x].held[q] \in Nat /\ call.rest[q] \in Nat
      BY <1>4 DEF Bags
    <3>2. b[q] = (IF q = r THEN handle[x].held[q] + 1 ELSE handle[x].held[q])
          /\ c[q] = (IF q = r THEN call.rest[q] - 1 ELSE call.rest[q])
      BY <1>1, <1>4, BagSteps
    <3>3. b[q] + c[q] = handle[x].held[q] + call.rest[q]
      BY <3>1, <3>2
    <3>4. QED
      BY <1>4, <3>3
  <2>3. QED
    BY <1>3, <1>4, <1>5, <1>6, <2>1, <2>2 DEF CallsOK, Copying, Creating
<1>11. Alone'
  BY <1>1, <1>3, <1>4, <1>5, <1>7, AloneKept DEF RecordsOK, Alone
<1>12. QED
  BY <1>9, <1>10, <1>11 DEF RecordsOK

\* An open that fails, or ends.
LEMMA OpenEndRecords ==
  ASSUME IInv, RecordsOK, OpenFails \/ OpenEnds
  PROVE  RecordsOK'
<1>1. PICK x, i, k : x = call.slot /\ i = call.id /\ k = kept[i]
  OBVIOUS
<1>2. /\ call.op = "open" /\ call' = NoCall /\ UNCHANGED <<live, kept>> /\ scan' \in {scan, Off}
  BY DEF OpenFails, OpenEnds, history
<1>3. /\ x \in Objects /\ i \in Ids /\ i \in live /\ handle[x].id = i /\ handle[x].type = SkipList /\ i # 0
      /\ IsHandle(handle[x]) /\ handle[x].held \in Bags /\ files[i] = k /\ k \in Bags /\ k # NoFile
      /\ call.rest \in Bags /\ live \subseteq Ids /\ OnlyOpen(x, i) /\ handle[x].status = "unset"
      /\ \A q \in Records : handle[x].held[q] + call.rest[q] = files[i][q]
  BY <1>1, <1>2, CopyFacts
<1>4. CallsOK' /\ call'.op = "none" /\ call'.id = 0 /\ call'.slot = Local /\ call'.rest \in Bags
  BY <1>2, Ended
<1>5. kept' = [kept EXCEPT ![i] = k] /\ HandlesOK(table, handle)
  BY <1>1, <1>2, <1>3 DEF RecordsOK, BagsOK, IInv
<1>6. PICK d, f : /\ handle' = [handle EXCEPT ![x] = d] /\ d.held \in Bags
                  /\ f \in Bags \cup {NoFile} /\ files' = [files EXCEPT ![i] = f]
                  /\ Rightly(d, i, f, IF i \in live' THEN k ELSE NoRecords, i \in live', call')
  <2>1. CASE OpenFails
    <3>1. handle' = [handle EXCEPT ![x] = NoHandle] /\ files' = [files EXCEPT ![i] = k]
      BY <1>1, <1>3, <2>1 DEF OpenFails, RecordsOK, BagsOK
    <3>2. Rightly(NoHandle, i, k, IF i \in live' THEN k ELSE NoRecords, i \in live', call')
      BY <1>2, <1>3, BlankFields, StoredIs DEF Rightly
    <3>3. QED
      BY <1>3, <3>1, <3>2, BlankFields, BagSteps
  <2>2. CASE OpenEnds
    <3>1. PICK d : d = [handle[x] EXCEPT !.status = "ok"]
      OBVIOUS
    <3>2. handle' = [handle EXCEPT ![x] = d] /\ files' = [files EXCEPT ![i] = NoFile]
          /\ call.rest = NoRecords
      BY <1>1, <2>2, <3>1 DEF OpenEnds
    <3>3. d.status = "ok" /\ d.id = i /\ d.type = SkipList /\ d.held = handle[x].held
      BY <1>3, <3>1, HandleFields
    <3>4. handle[x].held = k
      <4>1. \A q \in Records : handle[x].held[q] = k[q]
        BY <1>3, <3>2 DEF NoRecords, Bags
      <4>2. QED
        BY <1>3, <4>1, SameBag
    <3>5. Rightly(d, i, NoFile, IF i \in live' THEN k ELSE NoRecords, i \in live', call')
      BY <1>2, <1>3, <1>4, <3>3, <3>4, StoredIs DEF Rightly
    <3>6. QED
      BY <1>3, <3>2, <3>3, <3>5
  <2>3. QED
    BY <2>1, <2>2
<1>7. BagsOK' /\ OpensOK' /\ AtRest'
  BY <1>1, <1>2, <1>3, <1>4, <1>5, <1>6, OneId
<1>8. Alone'
  BY <1>1, <1>2, <1>3, <1>4, <1>5, <1>6, AloneKept DEF RecordsOK, Alone
<1>9. QED
  BY <1>4, <1>7, <1>8 DEF RecordsOK

\* dictionary_close, by the program and by ion_close_all_master_table.
LEMMA CloseRecords ==
  ASSUME IInv, RecordsOK, call = NoCall, NEW s \in Objects, IsOpen(s), dictionary_close(s),
         UNCHANGED <<tableVars, scan, history>>, scan # Off => s = Local
  PROVE  RecordsOK'
<1>1. PICK i, k : i = handle[s].id /\ k = kept[i]
  OBVIOUS
<1>2. call.op = "none" /\ call.id = 0 /\ UNCHANGED <<scan, live, kept>>
  BY NoCallFields DEF history
<1>3. /\ i \in live /\ i \in Ids /\ InUse(s, i) /\ OnlyOpen(s, i) /\ i # 0 /\ Contents(s) = k
      /\ live \subseteq Ids /\ kept' = [kept EXCEPT ![i] = k] /\ k \in Bags /\ HandlesOK(table, handle)
      /\ IsHandle(handle[s]) /\ handle[s].held \in Bags /\ files[i] \in Bags \cup {NoFile}
  BY <1>1, <1>2, QuietFacts DEF RecordsOK, BagsOK, Ids, IInv, HandlesOK, InUse, Owed
<1>4. CASE handle[s].type = SkipList
  <2>1. PICK d : d = handle[s]
    OBVIOUS
  <2>2. /\ files' = [files EXCEPT ![i] = NoRecords]
        /\ call' = Call("close", s, i, d.type, d.held)
        /\ handle' = [handle EXCEPT ![s] = d] /\ handle' = handle
        /\ d.held = k /\ d.status = "ok" /\ d.id = i /\ d.type = SkipList
    BY <1>1, <1>2, <1>3, <1>4, <2>1 DEF dictionary_close, InUse, Contents, HandlesOK, IsOpen
  <2>3. call'.op = "close" /\ call'.slot = s /\ call'.id = i /\ call'.rest = k
    BY <2>2, CallFields
  <2>4. Rightly(d, i, NoRecords, IF i \in live' THEN k ELSE NoRecords, i \in live', call')
    BY <1>2, <1>3, <2>2, <2>3 DEF Rightly
  <2>5. BagsOK' /\ OpensOK' /\ AtRest'
    <3>1. /\ d.held \in Bags /\ call'.rest \in Bags /\ live' \subseteq Ids /\ live' \ {i} = live \ {i}
          /\ IsOpen(s) => handle[s].id = i
          /\ call.id \in {0, i} /\ call'.id \in {0, i} /\ NoRecords \in Bags \cup {NoFile}
      BY <1>1, <1>2, <1>3, <2>1, <2>3, BagSteps
    <3>2. QED
      BY <1>3, <2>2, <2>4, <3>1, OneId
  <2>6. CallsOK'
    <3>1. files'[i] = NoRecords /\ NoRecords # NoFile
      BY <1>3, <2>2, BagSteps, StoredIs DEF RecordsOK, BagsOK
    <3>2. \A r \in Records : NoRecords[r] + k[r] = k[r]
      BY <1>3 DEF NoRecords, Bags
    <3>3. QED
      BY <1>2, <1>3, <2>1, <2>2, <2>3, <3>1, <3>2 DEF CallsOK, Copying, Creating
  <2>7. Alone'
    BY <1>2, <1>3, <2>2, <2>3, AloneKept DEF RecordsOK
  <2>8. QED
    BY <2>5, <2>6, <2>7 DEF RecordsOK
<1>5. CASE handle[s].type # SkipList
  <2>1. PICK e, d : e = [handle[s] EXCEPT !.status = "closed"] /\ d = [e EXCEPT !.fresh = FALSE]
    OBVIOUS
  <2>2. IsHandle(e) /\ e.status = "closed" /\ e.held = handle[s].held
    <3>1. IsHandle(e)
      BY <1>3, <2>1, TouchRecord
    <3>2. e.status = "closed" /\ e.held = handle[s].held
      BY <1>3, <2>1, HandleFields
    <3>3. QED
      BY <3>1, <3>2
  <2>3. d.status = "closed" /\ d.held \in Bags
    BY <1>3, <2>1, <2>2, HandleFields
  <2>4. handle' = [handle EXCEPT ![s] = d] /\ files' = files /\ call' = NoCall
    BY <1>5, <2>1 DEF dictionary_close, HandlesOK, IInv
  <2>5. CallsOK' /\ call'.op = "none" /\ call'.id = 0 /\ call'.slot = Local /\ call'.rest \in Bags
    BY <2>4, Ended
  <2>6. PICK f : f = files[i]
    OBVIOUS
  <2>7. files' = [files EXCEPT ![i] = f] /\ f \in Bags \cup {NoFile} /\ Stored(f) = k
    BY <1>1, <1>3, <1>5, <2>4, <2>6, StoredIs DEF RecordsOK, BagsOK, Contents
  <2>8. Rightly(d, i, f, IF i \in live' THEN k ELSE NoRecords, i \in live', call')
    BY <1>2, <1>3, <2>3, <2>7 DEF Rightly
  <2>9. BagsOK' /\ OpensOK' /\ AtRest'
    <3>1. /\ live' \subseteq Ids /\ live' \ {i} = live \ {i}
          /\ IsOpen(s) => handle[s].id = i
          /\ call.id \in {0, i} /\ call'.id \in {0, i}
      BY <1>1, <1>2, <1>3, <2>5
    <3>2. QED
      BY <1>3, <2>3, <2>4, <2>5, <2>7, <2>8, <3>1, OneId
  <2>10. Alone'
    BY <1>2, <1>3, <2>4, <2>5, AloneKept DEF RecordsOK
  <2>11. QED
    BY <2>5, <2>9, <2>10 DEF RecordsOK
<1>6. QED
  BY <1>4, <1>5

LEMMA CopyOutRecords ==
  ASSUME IInv, RecordsOK, NEW r \in Records, CopyOut(r)
  PROVE  RecordsOK'
<1>1. PICK x, i, k, c, f, d :
        /\ x = call.slot /\ i = call.id /\ k = kept[i] /\ d = handle[x]
        /\ c = Less(call.rest, r) /\ f = Plus(files[i], r)
  OBVIOUS
<1>2. /\ call.op = "close" /\ call.rest[r] > 0
      /\ call' = [call EXCEPT !.rest = c] /\ UNCHANGED <<handle, scan, live, kept>>
      /\ files' = [files EXCEPT ![i] = f]
  BY <1>1 DEF CopyOut, history
<1>3. /\ x \in Objects /\ i \in Ids /\ i \in live /\ i # 0 /\ d.id = i /\ d.type = SkipList
      /\ d.held \in Bags /\ d.held = k /\ files[i] \in Bags /\ k \in Bags
      /\ call.rest \in Bags /\ live \subseteq Ids /\ OnlyOpen(x, i) /\ d.status = "ok"
      /\ \A q \in Records : files[i][q] + call.rest[q] = k[q]
  BY <1>1, <1>2, CopyFacts
<1>4. /\ call'.op = "close" /\ call'.slot = x /\ call'.id = i /\ call'.rest = c
      /\ c \in Bags /\ f \in Bags /\ f # NoFile
  <2>1. call = Call(call.op, call.slot, call.id, call.type, call.rest)
    BY DEF IInv, IsCall
  <2>2. call' = Call("close", x, i, call.type, c)
    BY <1>1, <1>2, <2>1, CallFields
  <2>3. QED
    BY <1>1, <1>2, <1>3, <2>2, CallFields, BagSteps, StoredIs
<1>5. kept' = [kept EXCEPT ![i] = k] /\ handle' = [handle EXCEPT ![x] = d] /\ HandlesOK(table, handle)
  BY <1>1, <1>2, <1>3 DEF RecordsOK, BagsOK, IInv, HandlesOK
<1>6. Rightly(d, i, f, IF i \in live' THEN k ELSE NoRecords, i \in live', call')
  BY <1>2, <1>3, <1>4 DEF Rightly
<1>7. BagsOK' /\ OpensOK' /\ AtRest'
  <2>1. /\ live' \subseteq Ids /\ live' \ {i} = live \ {i}
        /\ IsOpen(x) => handle[x].id = i
        /\ call.id \in {0, i} /\ call'.id \in {0, i} /\ f \in Bags \cup {NoFile} /\ call'.rest \in Bags
    BY <1>1, <1>2, <1>3, <1>4
  <2>2. x \in Objects /\ i \in Ids /\ OnlyOpen(x, i) /\ d.held \in Bags /\ k \in Bags
    BY <1>3
  <2>3. QED
    BY <1>2, <1>5, <1>6, <2>1, <2>2, OneId
<1>8. CallsOK'
  <2>1. files'[i] = f /\ handle'[x] = d
    BY <1>1, <1>2, <1>3 DEF RecordsOK, BagsOK
  <2>2. ASSUME NEW q \in Records PROVE f[q] + c[q] = d.held[q]
    <3>1. PICK a \in Bags, b \in Bags : a = files[i] /\ b = call.rest
      BY <1>3
    <3>2. a[q] \in Nat /\ b[q] \in Nat
      BY <3>1 DEF Bags
    <3>3. f[q] = (IF q = r THEN a[q] + 1 ELSE a[q]) /\ c[q] = (IF q = r THEN b[q] - 1 ELSE b[q])
      <4>1. f = Plus(a, r) /\ c = Less(b, r)
        BY <1>1, <3>1
      <4>2. QED
        BY <4>1, BagSteps
    <3>4. f[q] + c[q] = a[q] + b[q]
      BY <3>2, <3>3
    <3>5. a[q] + b[q] = d.held[q]
      BY <1>3, <3>1
    <3>6. QED
      BY <3>4, <3>5
  <2>3. QED
    BY <1>2, <1>3, <1>4, <2>1, <2>2 DEF CallsOK, Copying, Creating
<1>9. Alone'
  <2>1. scan # Off => x = Local /\ call'.slot = Local
    BY <1>1, <1>4 DEF RecordsOK, Alone
  <2>2. x \in Objects /\ Alone /\ scan' \in {scan, Off}
    BY <1>2, <1>3 DEF RecordsOK
  <2>3. QED
    BY <1>5, <2>1, <2>2, AloneKept
<1>10. QED
  BY <1>7, <1>8, <1>9 DEF RecordsOK

\* A close that fails, or ends.
LEMMA CloseEndRecords ==
  ASSUME IInv, RecordsOK, CloseFails \/ CloseEnds
  PROVE  RecordsOK'
<1>1. PICK x, i, e : x = call.slot /\ i = call.id /\ e = handle[x]
  OBVIOUS
<1>2. call.op = "close" /\ call' = NoCall /\ live' = live /\ scan' \in {scan, Off}
  BY DEF CloseFails, CloseEnds, history
<1>3. /\ x \in Objects /\ i \in Ids /\ i \in live /\ i # 0 /\ e.id = i /\ e.type = SkipList
      /\ IsHandle(e) /\ e.held \in Bags /\ e.held = kept[i] /\ files[i] \in Bags /\ kept[i] \in Bags
      /\ call.rest \in Bags /\ live \subseteq Ids /\ OnlyOpen(x, i) /\ e.status = "ok"
      /\ \A q \in Records : files[i][q] + call.rest[q] = e.held[q]
  BY <1>1, <1>2, CopyFacts
<1>4. CallsOK' /\ call'.op = "none" /\ call'.id = 0 /\ call'.slot = Local /\ call'.rest \in Bags
  BY <1>2, Ended
<1>5. kept = [kept EXCEPT ![i] = kept[i]] /\ files = [files EXCEPT ![i] = files[i]]
      /\ handle = [handle EXCEPT ![x] = e] /\ HandlesOK(table, handle)
  BY <1>1, <1>3 DEF RecordsOK, BagsOK, IInv, HandlesOK
<1>6. PICK d, f, k : /\ handle' = [handle EXCEPT ![x] = d] /\ d.held \in Bags
                     /\ f \in Bags \cup {NoFile} /\ files' = [files EXCEPT ![i] = f]
                     /\ k \in Bags /\ kept' = [kept EXCEPT ![i] = k]
                     /\ Rightly(d, i, f, IF i \in live' THEN k ELSE NoRecords, i \in live', call')
  <2>1. CASE CloseFails /\ x = Local
    <3>1. /\ handle' = [handle EXCEPT ![x] = NoHandle] /\ files' = [files EXCEPT ![i] = NoFile]
          /\ kept' = [kept EXCEPT ![i] = NoRecords]
      BY <1>1, <2>1 DEF CloseFails
    <3>2. Rightly(NoHandle, i, NoFile, IF i \in live' THEN NoRecords ELSE NoRecords, i \in live', call')
      BY BlankFields, StoredIs DEF Rightly
    <3>3. QED
      BY <3>1, <3>2, BlankFields, BagSteps
  <2>2. CASE CloseFails /\ x # Local
    <3>1. handle' = handle /\ files' = [files EXCEPT ![i] = NoFile] /\ kept' = kept
      BY <1>1, <2>2 DEF CloseFails
    <3>2. Rightly(e, i, NoFile, IF i \in live' THEN kept[i] ELSE NoRecords, i \in live', call')
      BY <1>2, <1>3, <1>4, StoredIs DEF Rightly
    <3>3. QED
      BY <1>3, <1>5, <3>1, <3>2
  <2>3. CASE CloseEnds
    <3>1. PICK d : d = Handle("closed", e.id, e.type, NoRecords)
      OBVIOUS
    <3>2. d.status = "closed" /\ d.held = NoRecords
      BY <3>1, NewFields
    <3>3. handle' = [handle EXCEPT ![x] = d] /\ files' = files /\ kept' = kept /\ call.rest = NoRecords
      BY <1>1, <2>3, <3>1 DEF CloseEnds, history
    <3>4. files[i] = kept[i]
      <4>1. \A q \in Records : files[i][q] = kept[i][q]
        BY <1>3, <3>3 DEF NoRecords, Bags
      <4>2. QED
        BY <1>3, <4>1, SameBag
    <3>5. Rightly(d, i, files[i], IF i \in live' THEN kept[i] ELSE NoRecords, i \in live', call')
      BY <1>2, <1>3, <3>2, <3>4, StoredIs DEF Rightly
    <3>6. /\ d.held \in Bags /\ files[i] \in Bags \cup {NoFile} /\ kept[i] \in Bags
          /\ files' = [files EXCEPT ![i] = files[i]] /\ kept' = [kept EXCEPT ![i] = kept[i]]
      BY <1>3, <1>5, <3>2, <3>3, BagSteps
    <3>7. QED
      BY <3>3, <3>5, <3>6
  <2>4. QED
    BY <2>1, <2>2, <2>3
<1>7. BagsOK' /\ OpensOK' /\ AtRest'
  <2>1. /\ live' \subseteq Ids /\ live' \ {i} = live \ {i}
        /\ IsOpen(x) => handle[x].id = i
        /\ call.id \in {0, i} /\ call'.id \in {0, i} /\ call'.rest \in Bags
    BY <1>1, <1>2, <1>3, <1>4
  <2>2. QED
    BY <1>3, <1>5, <1>6, <2>1, OneId
<1>8. Alone'
  BY <1>1, <1>2, <1>3, <1>4, <1>5, <1>6, AloneKept DEF RecordsOK, Alone
<1>9. QED
  BY <1>4, <1>7, <1>8 DEF RecordsOK

LEMMA DeleteInstanceRecords ==
  ASSUME IInv, RecordsOK, gaps = 0, NEW s \in Slots, DeleteInstance(s)
  PROVE  RecordsOK'
<1>1. PICK i, d : i = handle[s].id /\ d = NoHandle
  OBVIOUS
<1>2. /\ call = NoCall /\ scan = Off /\ opened /\ s \in Objects
      /\ IsOpen(s) \/ (~HeldOpen(i) /\ Found(i))
      /\ call' = Call("delete", s, i, handle[s].type, NoRecords)
      /\ handle' = [handle EXCEPT ![s] = d]
      /\ files' = IF IsOpen(s) /\ handle[s].type = SkipList THEN files ELSE [files EXCEPT ![i] = NoFile]
      /\ kept' = [kept EXCEPT ![i] = NoRecords]
      /\ UNCHANGED <<scan, live>>
  BY <1>1 DEF DeleteInstance, Idle, Objects
<1>3. call.op = "none" /\ call.id = 0
  BY <1>2, NoCallFields
<1>4. i \in live /\ OnlyOpen(s, i)
      /\ (IsOpen(s) /\ handle[s].type = SkipList => OnFile(i) = NoRecords)
  <2>1. CASE IsOpen(s)
    BY <1>1, <1>2, <1>3, <2>1, QuietFacts DEF InUse
  <2>2. CASE ~IsOpen(s)
    BY <1>2, <2>2, RowOf DEF HeldOpen, OnlyOpen
  <2>3. QED
    BY <2>1, <2>2
<1>5. /\ i \in Ids /\ i # 0 /\ live \subseteq Ids /\ files[i] \in Bags \cup {NoFile}
      /\ HandlesOK(table, handle) /\ d.status = "unset" /\ d.held = NoRecords
  <2>1. i \in Ids /\ live \subseteq Ids /\ files[i] \in Bags \cup {NoFile}
    BY <1>4 DEF RecordsOK, BagsOK
  <2>2. i # 0
    BY <2>1 DEF Ids
  <2>3. QED
    BY <1>1, <2>1, <2>2, BlankFields DEF IInv
<1>6. /\ call'.op = "delete" /\ call'.slot = s /\ call'.id = i /\ call'.rest = NoRecords
  BY <1>2, CallFields
<1>7. PICK f \in Bags \cup {NoFile} : files' = [files EXCEPT ![i] = f] /\ Stored(f) = NoRecords
  <2>1. CASE IsOpen(s) /\ handle[s].type = SkipList
    <3>1. files' = [files EXCEPT ![i] = files[i]]
      BY <1>2, <1>5, <2>1 DEF RecordsOK, BagsOK
    <3>2. QED
      BY <1>4, <1>5, <2>1, <3>1, StoredIs
  <2>2. CASE ~(IsOpen(s) /\ handle[s].type = SkipList)
    BY <1>2, <2>2, StoredIs
  <2>3. QED
    BY <2>1, <2>2
<1>8. BagsOK' /\ OpensOK' /\ AtRest'
  <2>1. Rightly(d, i, f, IF i \in live' THEN NoRecords ELSE NoRecords, i \in live', call')
    BY <1>5, <1>7 DEF Rightly
  <2>2. /\ live' \subseteq Ids /\ live' \ {i} = live \ {i} /\ d.held \in Bags
        /\ IsOpen(s) => handle[s].id = i
        /\ call.id \in {0, i} /\ call'.id \in {0, i} /\ call'.rest \in Bags /\ NoRecords \in Bags
    BY <1>1, <1>2, <1>3, <1>5, <1>6, BagSteps
  <2>3. QED
    BY <1>2, <1>4, <1>5, <1>7, <2>1, <2>2, OneId
<1>9. CallsOK'
  <2>1. handle'[s] = d /\ OnFile(i)' = NoRecords
    BY <1>2, <1>5, <1>7, StoredIsNext DEF HandlesOK, RecordsOK, BagsOK
  <2>2. QED
    BY <1>5, <1>6, <2>1 DEF CallsOK, Copying, Creating, IsOpen
<1>10. Alone'
  BY <1>2 DEF Alone
<1>11. QED
  BY <1>8, <1>9, <1>10 DEF RecordsOK

LEMMA DeleteRowRecords ==
  ASSUME IInv, RecordsOK, DeleteRow
  PROVE  RecordsOK'
<1>1. PICK x, i, d, f, k : /\ x = call.slot /\ i = call.id /\ d = handle[x]
                           /\ f = files[i] /\ k = kept[i]
  OBVIOUS
<1>2. /\ call.op = "delete" /\ call' = NoCall /\ live' = live \ {i}
      /\ UNCHANGED <<files, handle, scan, kept>>
  BY <1>1 DEF DeleteRow
<1>3. /\ x \in Objects /\ i \in Ids /\ i # 0 /\ ~IsOpen(x) /\ OnFile(i) = NoRecords /\ scan = Off
      /\ live \subseteq Ids
  BY <1>1, <1>2, IdsAtHand DEF RecordsOK, CallsOK, BagsOK, Ids, IInv, ScanOK
<1>4. OnlyOpen(x, i)
  BY <1>1, <1>2, <1>3 DEF RecordsOK, OpensOK, InUse, OnlyOpen
<1>5. CallsOK' /\ call'.op = "none" /\ call'.id = 0 /\ call'.rest \in Bags
  BY <1>2, Ended
<1>6. BagsOK' /\ OpensOK' /\ AtRest'
  <2>1. /\ handle' = [handle EXCEPT ![x] = d] /\ HandlesOK(table, handle) /\ d.held \in Bags
        /\ files' = [files EXCEPT ![i] = f] /\ f \in Bags \cup {NoFile} /\ Stored(f) = NoRecords
        /\ kept' = [kept EXCEPT ![i] = k] /\ k \in Bags
    BY <1>1, <1>2, <1>3, StoredIs DEF IInv, HandlesOK, RecordsOK, BagsOK
  <2>2. Rightly(d, i, f, IF i \in live' THEN k ELSE NoRecords, i \in live', call')
    BY <1>1, <1>2, <1>3, <2>1 DEF Rightly, IsOpen
  <2>3. /\ live' \subseteq Ids /\ live' \ {i} = live \ {i}
        /\ IsOpen(x) => handle[x].id = i
        /\ call.id \in {0, i} /\ call'.id \in {0, i} /\ call'.rest \in Bags
    BY <1>1, <1>2, <1>3, <1>5
  <2>4. QED
    BY <1>3, <1>4, <2>1, <2>2, <2>3, OneId
<1>7. Alone'
  BY <1>2, <1>3 DEF Alone
<1>8. QED
  BY <1>5, <1>6, <1>7 DEF RecordsOK

-----------------------------------------------------------------------------
(***************************************************************************)
(* What is about no dictionary, or all of them.                            *)
(***************************************************************************)

\* Objects that are not open are reset.
LEMMA ResetRecords ==
  ASSUME RecordsOK, UNCHANGED <<files, call, live, kept>>,
         \A s \in Objects : handle'[s] = handle[s] \/ (~IsOpen(s) /\ handle'[s] = NoHandle)
  PROVE  BagsOK' /\ OpensOK' /\ AtRest'
<1>1. \A s \in Objects : (IsOpen(s)' <=> IsOpen(s)) /\ (IsOpen(s) => handle'[s] = handle[s])
  BY BlankFields DEF IsOpen
<1>2. BagsOK'
  BY BlankFields, BagSteps DEF RecordsOK, BagsOK
<1>3. \A i : (HeldOpen(i)' <=> HeldOpen(i)) /\ OnFile(i)' = OnFile(i) /\ Owed(i)' = Owed(i)
  BY <1>1 DEF HeldOpen, OnFile, Owed
<1>4. AtRest'
  BY <1>3 DEF RecordsOK, AtRest
<1>5. ASSUME NEW s \in Objects, IsOpen(s)' PROVE InUse(s, handle[s].id)'
  <2>1. PICK i : i = handle[s].id
    OBVIOUS
  <2>2. handle'[s] = handle[s] /\ InUse(s, i)
    BY <1>1, <1>5, <2>1 DEF RecordsOK, OpensOK
  <2>3. OnlyOpen(s, i)'
    BY <1>1, <2>2 DEF InUse, OnlyOpen
  <2>4. Contents(s)' = Contents(s)
    BY <1>3, <2>2 DEF Contents
  <2>5. InUse(s, i)'
    BY <1>3, <2>2, <2>3, <2>4 DEF InUse
  <2>6. QED
    BY <2>1, <2>2, <2>5
<1>6. QED
  BY <1>2, <1>4, <1>5 DEF OpensOK

LEMMA SameRecords ==
  ASSUME RecordsOK, UNCHANGED <<files, handle, call, live, kept>>, scan' # Off => scan # Off
  PROVE  RecordsOK'
<1>1. BagsOK' /\ OpensOK' /\ AtRest'
  BY ResetRecords
<1>2. CallsOK'
  BY DEF RecordsOK, CallsOK, Copying, IsOpen, OnFile
<1>3. Alone'
  BY DEF RecordsOK, Alone, IsOpen
<1>4. QED
  BY <1>1, <1>2, <1>3 DEF RecordsOK

LEMMA ScanRecords ==
  ASSUME IInv, RecordsOK, ~Reopened, CloseAll \/ CloseAllNext
  PROVE  RecordsOK'
<1>1. CASE CloseAll
  <2>1. /\ call = NoCall /\ \A s \in Slots : ~IsOpen(s)
        /\ UNCHANGED <<files, handle, call, live, kept>>
    BY <1>1 DEF CloseAll, Idle, history
  <2>2. BagsOK' /\ OpensOK' /\ AtRest'
    BY <2>1, ResetRecords
  <2>3. CallsOK'
    BY <2>1, Ended
  <2>4. Alone'
    BY <2>1, NoCallFields DEF Alone, IsOpen
  <2>5. QED
    BY <2>2, <2>3, <2>4 DEF RecordsOK
<1>2. CASE CloseAllNext
  <2>1. /\ scan > 0 /\ handle[Local].status = "closed" /\ Local \in Objects
        /\ handle' = [handle EXCEPT ![Local] = NoHandle] /\ scan' = scan - 1
        /\ UNCHANGED <<files, call, live, kept>>
    BY <1>2 DEF CloseAllNext, history, Objects
  <2>2. \A s \in Objects : handle'[s] = handle[s] \/ (~IsOpen(s) /\ handle'[s] = NoHandle)
    BY <2>1 DEF IInv, HandlesOK, IsOpen
  <2>3. BagsOK' /\ OpensOK' /\ AtRest'
    BY <2>1, <2>2, ResetRecords
  <2>4. scan # Off
    BY <2>1 DEF Off
  <2>5. call = NoCall
    <3>1. call.slot = Local /\ call.op \in {"none", "open", "close"}
      BY <2>4 DEF RecordsOK, Alone, IInv, ScanOK
    <3>2. QED
      BY <2>1, <3>1 DEF RecordsOK, CallsOK, Copying
  <2>6. CallsOK'
    BY <2>1, <2>5, Ended
  <2>7. Alone'
    <3>1. \A s \in Slots \ {Local} : s \in Objects /\ ~IsOpen(s)
      BY <2>4 DEF RecordsOK, Alone, Objects
    <3>2. QED
      BY <2>1, <2>2, <2>4, <3>1, BlankFields DEF RecordsOK, Alone, IsOpen
  <2>8. QED
    BY <2>3, <2>6, <2>7 DEF RecordsOK
<1>3. QED
  BY <1>1, <1>2

LEMMA DeleteTableRecords ==
  ASSUME IInv, RecordsOK, DeleteTable
  PROVE  RecordsOK'
<1>1. /\ call = NoCall /\ scan = Off /\ live = {}
      /\ handle' = [s \in Objects |-> NoHandle]
      /\ UNCHANGED <<files, call, scan, live, kept>>
  BY DEF DeleteTable, Idle, history
<1>2. \A s \in Objects : ~IsOpen(s)
  BY <1>1, NoCallFields, QuietFacts
<1>3. BagsOK' /\ OpensOK' /\ AtRest'
  BY <1>1, <1>2, ResetRecords
<1>4. CallsOK' /\ Alone'
  BY <1>1, Ended DEF Alone
<1>5. QED
  BY <1>3, <1>4 DEF RecordsOK

\* A crash.  What is in the files is what is left to the users.
LEMMA CrashRecords ==
  ASSUME IInv, RecordsOK, gaps = 0, gaps' = 0, Crash
  PROVE  RecordsOK'
<1>1. /\ files' \in [Ids -> UNION { FileAfterCrash(i) : i \in Ids }]
      /\ \A i \in Ids : files'[i] \in FileAfterCrash(i)
      /\ kept' = [i \in Ids |-> IF HeldOpen(i) THEN OnFile(i)' ELSE kept[i]]
      /\ handle' = [s \in Objects |-> NoHandle]
      /\ call' = NoCall /\ scan' = Off /\ live' = live
  BY DEF Crash
<1>2. call.op \notin {"create", "created"}
  BY DEF Crash
<1>3. \A i \in Ids : files[i] \in Bags \cup {NoFile} /\ kept[i] \in Bags
  BY DEF RecordsOK, BagsOK
<1>4. \A i \in Ids : files'[i] \in Bags \cup {NoFile} /\ (~HeldOpen(i) => files'[i] = files[i])
  <2> SUFFICES ASSUME NEW i \in Ids
               PROVE  files'[i] \in Bags \cup {NoFile} /\ (~HeldOpen(i) => files'[i] = files[i])
    OBVIOUS
  <2>1. \/ files'[i] = files[i]
        \/ \E r \in Records : /\ HeldOpen(i) /\ files[i] # NoFile /\ files[i][r] > 0
                              /\ files'[i] = Less(files[i], r)
    BY <1>1 DEF FileAfterCrash
  <2>2. QED
    BY <1>3, <2>1, BagSteps
<1>5. \A i \in Ids : OnFile(i)' \in Bags /\ OnFile(i)' = Stored(files'[i])
  BY <1>4, StoredIs, StoredIsNext
<1>6. BagsOK'
  <2>1. files' \in [Ids -> Bags \cup {NoFile}]
    BY <1>1, <1>4
  <2>2. kept' \in [Ids -> Bags]
    BY <1>1, <1>3, <1>5
  <2>3. call'.rest \in Bags /\ \A s \in Objects : handle'[s].held \in Bags
    BY <1>1, NoCallFields, BlankFields, BagSteps
  <2>4. QED
    BY <1>1, <2>1, <2>2, <2>3 DEF RecordsOK, BagsOK
<1>7. \A s \in Objects : ~IsOpen(s)'
  BY <1>1, BlankFields DEF IsOpen
<1>8. ASSUME NEW i \in Ids PROVE OnFile(i)' = Owed(i)'
  <2>1. CASE HeldOpen(i)
    <3>1. i \in live
      BY <1>2, <2>1 DEF HeldOpen, RecordsOK, OpensOK, InUse
    <3>2. kept'[i] = OnFile(i)'
      BY <1>1, <2>1
    <3>3. QED
      BY <1>1, <3>1, <3>2 DEF Owed
  <2>2. CASE ~HeldOpen(i)
    <3>1. OnFile(i)' = OnFile(i)
      BY <1>4, <1>5, <2>2, StoredIs
    <3>2. kept'[i] = kept[i]
      BY <1>1, <2>2
    <3>3. QED
      BY <1>1, <2>2, <3>1, <3>2 DEF RecordsOK, AtRest, Owed
  <2>3. QED
    BY <2>1, <2>2
<1>9. CallsOK' /\ Alone'
  BY <1>1, Ended DEF Alone
<1>10. QED
  BY <1>6, <1>7, <1>8, <1>9 DEF RecordsOK, OpensOK, AtRest

LEMMA InitRecords == Init => RecordsOK
<1> SUFFICES ASSUME Init PROVE RecordsOK
  OBVIOUS
<1>1. /\ files = [i \in Ids |-> NoFile] /\ kept = [i \in Ids |-> NoRecords] /\ live = {}
      /\ handle = [s \in Objects |-> NoHandle] /\ call = NoCall /\ scan = Off
  BY DEF Init
<1>2. BagsOK
  BY <1>1, NoCallFields, BlankFields, BagSteps DEF BagsOK
<1>3. \A s \in Objects : ~IsOpen(s)
  BY <1>1, BlankFields DEF IsOpen
<1>4. \A i \in Ids : OnFile(i) = Owed(i)
  BY <1>1 DEF OnFile, Owed
<1>5. CallsOK
  BY <1>1, NoCallFields DEF CallsOK, Copying, Creating
<1>6. QED
  BY <1>1, <1>2, <1>3, <1>4, <1>5 DEF RecordsOK, OpensOK, AtRest, Alone

\* Creations that have failed stay counted.
LEMMA GapsStay ==
  ASSUME IInv, [Next]_vars, gaps' = 0
  PROVE  gaps = 0
<1>1. gaps \in Nat
  BY DEF IInv, TableOK
<1>2. \/ gaps' = gaps
      \/ CreateFails \/ Crash
  <2>1. ASSUME \/ \E s \in Slots, type \in Types : CreateTakesId(s, type)
               \/ CreateInstance \/ CreateAddsRow
               \/ \E s \in Slots, r \in Records : Insert(s, r)
               \/ \E s \in Slots, i \in Ids : ion_open_dictionary(s, i)
               \/ \E s \in Slots : ion_close_dictionary(s) \/ DeleteInstance(s)
        PROVE  gaps' = gaps
    BY <2>1 DEF history, CreateTakesId, CreateInstance, CreateAddsRow, Insert,
       ion_open_dictionary, ion_close_dictionary, DeleteInstance
  <2>2. ASSUME \/ \E r \in Records : CopyIn(r) \/ CopyOut(r)
               \/ OpenFails \/ OpenEnds \/ CloseFails \/ CloseEnds \/ DeleteRow
        PROVE  gaps' = gaps
    BY <2>2 DEF history, CopyIn, CopyOut, OpenFails, OpenEnds, CloseFails, CloseEnds, DeleteRow
  <2>3. ASSUME \/ CloseAll \/ CloseAllSkips \/ CloseAllOpens \/ CloseAllCloses \/ CloseAllNext
               \/ CloseAllEnds \/ InitTable \/ CloseTable \/ DeleteTable \/ UNCHANGED vars
        PROVE  gaps' = gaps
    BY <2>3 DEF vars, history, CloseAll, CloseAllSkips, CloseAllOpens, CloseAllCloses,
       CloseAllNext, CloseAllEnds, InitTable, CloseTable, DeleteTable
  <2>4. QED
    BY <2>1, <2>2, <2>3, Zenon DEF Next
<1>3. CreateFails \/ Crash => gaps' = gaps \/ gaps' = gaps + 1
  BY <1>1 DEF CreateFails, Crash
<1>4. QED
  BY <1>1, <1>2, <1>3

LEMMA NextRecords ==
  ASSUME IInv, RecordsOK, ~Reopened, gaps = 0, gaps' = 0, [Next]_vars
  PROVE  RecordsOK'
<1>1. ASSUME NEW s \in Slots, NEW type \in Types, CreateTakesId(s, type) PROVE RecordsOK'
  BY <1>1, TakesIdRecords
<1>2. ASSUME CreateInstance \/ CreateAddsRow PROVE RecordsOK'
  BY <1>2, InstanceRecords, AddsRowRecords
<1>3. ~CreateFails
  BY DEF CreateFails
<1>4. ASSUME NEW s \in Slots, NEW r \in Records, Insert(s, r) PROVE RecordsOK'
  BY <1>4, InsertRecords
<1>5. ASSUME NEW s \in Slots, NEW i \in Ids, ion_open_dictionary(s, i) PROVE RecordsOK'
  <2>1. /\ call = NoCall /\ scan = Off /\ opened /\ Found(i) /\ ~IsOpen(s) /\ s \in Objects
        /\ ~HeldOpen(table.rows[i].id)
        /\ dictionary_open(s, table.rows[i]) /\ UNCHANGED <<tableVars, scan, history>>
    BY <1>5 DEF ion_open_dictionary, Idle, Objects
  <2>2. ~HeldOpen(i)
    BY <2>1, RowOf
  <2>3. QED
    BY <2>1, <2>2, OpenRecords
<1>6. ASSUME NEW s \in Slots, ion_close_dictionary(s) PROVE RecordsOK'
  BY <1>6, CloseRecords DEF ion_close_dictionary, Idle, Objects
<1>7. ASSUME NEW s \in Slots, DeleteInstance(s) PROVE RecordsOK'
  BY <1>7, DeleteInstanceRecords
<1>8. ASSUME NEW r \in Records, CopyIn(r) \/ CopyOut(r) PROVE RecordsOK'
  BY <1>8, CopyInRecords, CopyOutRecords
<1>9. ASSUME OpenFails \/ OpenEnds \/ CloseFails \/ CloseEnds \/ DeleteRow PROVE RecordsOK'
  BY <1>9, OpenEndRecords, CloseEndRecords, DeleteRowRecords
<1>10. ASSUME CloseAll \/ CloseAllNext PROVE RecordsOK'
  BY <1>10, ScanRecords
<1>11. ASSUME CloseAllOpens PROVE RecordsOK'
  <2>1. /\ call = NoCall /\ scan # Off /\ Found(scan) /\ ~IsOpen(Local) /\ Local \in Objects
        /\ dictionary_open(Local, table.rows[scan]) /\ UNCHANGED <<tableVars, scan, history>>
    BY <1>11 DEF CloseAllOpens, Off, IsOpen, Objects
  <2>2. opened /\ ~HeldOpen(scan)
    BY <2>1 DEF IInv, ScanOK, RecordsOK, Alone, HeldOpen, Objects
  <2>3. QED
    BY <2>1, <2>2, OpenRecords
<1>12. ASSUME CloseAllCloses PROVE RecordsOK'
  BY <1>12, CloseRecords DEF CloseAllCloses, Objects
<1>13. ASSUME CloseAllSkips \/ CloseAllEnds \/ InitTable \/ CloseTable \/ UNCHANGED vars PROVE RecordsOK'
  <2>1. UNCHANGED <<files, handle, call, live, kept>> /\ (scan' # Off => scan # Off)
    BY <1>13 DEF CloseAllSkips, CloseAllEnds, InitTable, CloseTable, vars, dictVars, history, Off
  <2>2. QED
    BY <2>1, SameRecords
<1>14. ASSUME DeleteTable PROVE RecordsOK'
  BY <1>14, DeleteTableRecords
<1>15. ASSUME Crash PROVE RecordsOK'
  BY <1>15, CrashRecords
<1>16. QED
  BY <1>1, <1>2, <1>3, <1>4, <1>5, <1>6, <1>7, <1>8, <1>9, <1>10, <1>11, <1>12, <1>13,
     <1>14, <1>15, Zenon DEF Next

\* While no creation has failed, an object that is open, a copy under way and
\* the file of an id together hold what its users have put, each record once.
THEOREM RecordsInvariance == ~Reopened /\ Spec => [](gaps = 0 => RecordsOK)
<1> SUFFICES ASSUME ~Reopened PROVE Spec => [](gaps = 0 => RecordsOK)
  OBVIOUS
<1> DEFINE Inv == IInv /\ (gaps = 0 => RecordsOK)
<1>1. Init => Inv
  BY InitIInv, InitRecords
<1>2. Inv /\ [Next]_vars => Inv'
  BY NextKeepsIInv, GapsStay, NextRecords
<1>3. QED
  BY <1>1, <1>2, PTL DEF Spec

\* No record is lost or doubled on the way through close and open, with the
\* failures and the crashes on that way, for any number of dictionaries,
\* objects and records, when close_all is called with all dictionaries closed.
THEOREM NothingIsLost == ~Reopened /\ Spec => []NothingLost
<1>1. (gaps = 0 => RecordsOK) => NothingLost
  <2> SUFFICES ASSUME gaps = 0, RecordsOK, NEW i \in live
               PROVE  IF HeldOpen(i)
                        THEN \A s \in Objects : IsOpen(s) /\ handle[s].id = i => Contents(s) = kept[i]
                        ELSE OnFile(i) = kept[i]
    BY DEF NothingLost
  <2>1. i \in Ids
    BY DEF RecordsOK, BagsOK
  <2>2. QED
    BY <2>1 DEF RecordsOK, OpensOK, AtRest, InUse, Owed
<1>2. QED
  BY <1>1, RecordsInvariance, PTL
=============================================================================
