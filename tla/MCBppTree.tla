----------------------------- MODULE MCBppTree -----------------------------
(* Small instances of BppTree for TLC. *)
EXTENDS BppTree

Inserts(ks) == [i \in DOMAIN ks |-> <<"insert", ks[i], "v">>]
Deletes(ks) == [i \in DOMAIN ks |-> <<"delete", ks[i], "v">>]
FromTo(m, n) == [i \in 1 .. (n - m + 1) |-> m + i - 1]

MCKeys == 1 .. 115
EvenKeys == 1 .. 220
MCValues == {"v", "w"}
MCHotKeys == {2, 12, 23, 30}
MCPredicates == {AllRecords, Equality(12), KeyRange(12, 30)}

\* Nodes of 7 keys: an empty tree; a root about to be split; leaves about to be
\* merged and a root about to collapse; a tree that grows to three levels and
\* shrinks from the left; another one, with the first keys of leaves deleted and
\* put back, that shrinks from the right; keys with two values, and more leaves
\* than there are buffers.
Evens(n) == [i \in 1 .. n |-> 2 * i]
MCScripts == {
  << >>,
  Inserts(Evens(21)),
  Inserts(Evens(22)) \o Deletes(<<24, 42, 40, 38, 36>>),
  Inserts(FromTo(1, 115)) \o Deletes(FromTo(1, 113)),
  Inserts(FromTo(1, 80)) \o Deletes(<<26>>) \o Inserts(FromTo(81, 115) \o <<26>>)
    \o Deletes(<<54>> \o Reverse(FromTo(1, 115))),
  Inserts(FromTo(1, 45) \o FromTo(1, 45)) \o Deletes(FromTo(1, 10) \o FromTo(31, 45))}

\* A leaf loses its first key while the inner key next to it is in the parent
\* of the leaf, and gets it back when that inner key has moved to the root.
SeparatorScripts == {
  Inserts(FromTo(1, 100)) \o Deletes(<<54>>) \o Inserts(FromTo(101, 114) \o <<54>>)}

\* Nodes of 10 keys: a scatter leaves inner nodes with the least they may have,
\* and deletes go on below one of them, which cannot lose a key.
EvenScripts == { Inserts(FromTo(1, 220)) \o Deletes(Reverse(FromTo(1, 220))) }
=============================================================================
