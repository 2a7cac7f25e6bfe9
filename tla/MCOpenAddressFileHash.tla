------------------------ MODULE MCOpenAddressFileHash ------------------------
(***************************************************************************)
(* Three buckets; 1 and 4 share bucket 1, and 1 can keep 4 out of bucket   *)
(* 2.  A record of key 4 in bucket 0 is then behind the wrap of a scan that *)
(* a later one in bucket 1 starts.  Zeroed bytes read as 0.                *)
(***************************************************************************)
EXTENDS OpenAddressFileHash

MCKeys == {0, 1, 4}
MCHash == [k \in MCKeys |-> oah_compute_simple_hash(k, MapSize)]
MCPredicates == { Equality(4), KeyRange(0, 1) }

\* The last answer decides no step and is in no property here: states that
\* differ in it alone are one.
WithoutAnswers == <<allocated, entry, cursorVars, fileVars>>
=============================================================================
