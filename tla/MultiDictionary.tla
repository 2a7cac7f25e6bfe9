--------------------------- MODULE MultiDictionary ---------------------------
(***************************************************************************)
(* What a flat file and a skip list of IonDB keep for their callers: a bag *)
(* of values for each key.  An insert never refuses a key that is held; a  *)
(* delete removes every record of it and an update overwrites every record *)
(* of it.  Which of several values a get returns is left open.             *)
(***************************************************************************)
EXTENDS Integers, FiniteSetsExt

CONSTANTS
  Keys,
  Values,
  NoValue     \* the value of an answer that carries none

VARIABLES
  bag,        \* bag[k][v]: how many records <<k, v>> there are
  result      \* what the last call returned

vars == <<bag, result>>

NoRecords == [v \in Values |-> 0]
Copies(k) == MapThenSumSet(LAMBDA v : bag[k][v], Values)

Answer(call, k, err, n, v) ==
  result' = [call |-> call, key |-> k, err |-> err, count |-> n, value |-> v]

Init ==
  /\ bag = [k \in Keys |-> NoRecords]
  /\ result = [call |-> "none", key |-> NoValue, err |-> "err_ok", count |-> 0, value |-> NoValue]

Add(call, k, v) ==
  /\ Answer(call, k, "err_ok", 1, NoValue)
  /\ bag' = [bag EXCEPT ![k][v] = @ + 1]

Miss(call, k) ==
  /\ Answer(call, k, "err_item_not_found", 0, NoValue)
  /\ Copies(k) = 0
  /\ UNCHANGED bag

\* There is no memory for the record.  An update counts it all the same.
Refuse(call, k, n) ==
  /\ Answer(call, k, "err_out_of_memory", n, NoValue)
  /\ UNCHANGED bag

Insert(k, v) == Add("insert", k, v) \/ Refuse("insert", k, 0)

\* The count of the answer is the number of records overwritten or removed.
Update(k, v) ==
  \/ Copies(k) = 0 /\ (Add("update", k, v) \/ Refuse("update", k, 1))
  \/ /\ Copies(k) > 0
     /\ Answer("update", k, "err_ok", Copies(k), NoValue)
     /\ bag' = [bag EXCEPT ![k] = [NoRecords EXCEPT ![v] = Copies(k)]]

Delete(k) ==
  \/ Miss("delete", k)
  \/ /\ Copies(k) > 0
     /\ Answer("delete", k, "err_ok", Copies(k), NoValue)
     /\ bag' = [bag EXCEPT ![k] = NoRecords]

Get(k) ==
  \/ Miss("get", k)
  \/ /\ \E v \in Values : bag[k][v] > 0 /\ Answer("get", k, "err_ok", 1, v)
     /\ UNCHANGED bag

\* The dictionary is deleted.
Clear == bag' = [k \in Keys |-> NoRecords] /\ UNCHANGED result

Next ==
  \/ \E k \in Keys, v \in Values : Insert(k, v) \/ Update(k, v)
  \/ \E k \in Keys : Delete(k) \/ Get(k)
  \/ Clear

Spec == Init /\ [][Next]_vars

\* The process stops in or right after a call for some key: of that key
\* records may be lost, and there is at most one more; of the other keys none
\* is lost, and one record at most is there twice.
Crash ==
  /\ UNCHANGED result
  /\ bag' \in [Keys -> [Values -> Nat]]
  /\ \E k \in Keys :
       LET others == Keys \ {k}
           more(j, v) == bag'[j][v] - bag[j][v]
       IN /\ Copies(k)' <= Copies(k) + 1
          /\ \A j \in others, v \in Values : more(j, v) >= 0
          /\ MapThenSumSet(LAMBDA j : MapThenSumSet(LAMBDA v : more(j, v), Values), others) <= 1

\* A dictionary kept in a file, whose process may stop.
CrashSpec == Init /\ [][Next \/ Crash]_vars
=============================================================================
