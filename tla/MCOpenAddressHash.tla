-------------------------- MODULE MCOpenAddressHash --------------------------
(***************************************************************************)
(* A table of three buckets and two keys, one negative, that share the     *)
(* second one as their hash: probing wraps.  Either can keep the other out *)
(* of the last bucket, so that it has a record behind the wrap of a scan   *)
(* that a later one in the second bucket starts.                           *)
(***************************************************************************)
EXTENDS OpenAddressHash

MCKeys == {-2, 1}
MCHash == [k \in MCKeys |-> oah_compute_simple_hash(k, MapSize)]
MCPredicates == { Equality(1), KeyRange(0, 1), AllRecords }

\* Two values tell the stacks apart; what a cursor delivers is told by its
\* bucket, and while one is open the records have one value.
ReadValue == CHOOSE v \in Values : TRUE
OneValueRead ==
  cursor.status = "none" \/ \A s \in Slots : entry[s] = Empty \/ entry[s].value = ReadValue
=============================================================================
