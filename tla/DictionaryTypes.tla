--------------------------- MODULE DictionaryTypes ---------------------------
(***************************************************************************)
(* What every dictionary implementation of IonDB shares: the predicates a  *)
(* cursor is opened with, and the answer of a dictionary call.             *)
(*                                                                         *)
(* Keys are integers: the order is the one of the comparison function the  *)
(* dictionary was created with.                                            *)
(***************************************************************************)
EXTENDS Integers

\* A predicate is a tagged union in the code; here the equality value is
\* both bounds, and the bounds of predicate_all_records are not read.
Equality(k) == [type |-> "equality", lower |-> k, upper |-> k]
KeyRange(lo, hi) == [type |-> "range", lower |-> lo, upper |-> hi]
AllRecords == [type |-> "all_records", lower |-> 0, upper |-> 0]

Predicate == [type: {"equality", "range", "all_records"}, lower: Int, upper: Int]

test_predicate(pred, key) ==
  \/ pred.type = "all_records"
  \/ pred.type = "equality" /\ key = pred.lower
  \/ pred.type = "range" /\ pred.lower <= key /\ key <= pred.upper

CursorStatus == { "cs_cursor_uninitialized", "cs_cursor_initialized",
                  "cs_cursor_active", "cs_end_of_results" }
=============================================================================
