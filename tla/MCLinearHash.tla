---------------------------- MODULE MCLinearHash ----------------------------
(* Small instances of LinearHash for TLC: 4-byte keys that hash to 0 and 2. *)
EXTENDS LinearHash

MCKeys == 0 .. 1
MCValues == {"v", "w"}
MCKeyInt == [k \in MCKeys |-> key_bytes_to_int(<<k, 0, 0, 0>>)]
MCBlank == [status |-> "other", key |-> -1, value |-> "stray"]
=============================================================================
