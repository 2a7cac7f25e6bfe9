--------------------------- MODULE StackDictionary ---------------------------
(***************************************************************************)
(* What an open address hash of IonDB keeps for its callers: each key maps *)
(* to a stack of values, newest first.  A unique dictionary would never    *)
(* hold two values for one key.  The hash map does, because an insert or   *)
(* an update writes into the first tombstone of the probe sequence before  *)
(* it has looked for the key behind it; what the code then still keeps is  *)
(* that the newest value is the one read, updated and deleted.             *)
(***************************************************************************)
EXTENDS Naturals, Sequences, FiniteSetsExt

CONSTANTS
  Keys,
  Values,
  Capacity,   \* number of records the table has room for
  NoValue     \* the value of an answer that carries none

VARIABLES
  stack,      \* [Keys -> Seq(Values)], the newest value first
  result      \* what the last call returned

vars == <<stack, result>>

Held == MapThenSumSet(LAMBDA k : Len(stack[k]), Keys)

Answer(call, k, err, v) ==
  result' = [call |-> call, key |-> k, err |-> err, value |-> v]

TypeOK ==
  /\ stack \in [Keys -> Seq(Values)]
  /\ Held <= Capacity

Init ==
  /\ stack = [k \in Keys |-> << >>]
  /\ result = [call |-> "none", key |-> NoValue, err |-> "err_ok", value |-> NoValue]

(***************************************************************************)
(* A write of a key that is not held pushes it, or finds the table full.   *)
(* A write of a key that is held may push a second copy, when there is     *)
(* room; otherwise an insert is refused and an update replaces the newest. *)
(***************************************************************************)
Push(call, k, v) ==
  /\ Answer(call, k, "err_ok", NoValue)
  /\ Held < Capacity
  /\ stack' = [stack EXCEPT ![k] = <<v>> \o @]

RefuseFull(call, k) ==
  /\ Answer(call, k, "err_max_capacity", NoValue)
  /\ stack[k] = << >> /\ Held = Capacity
  /\ UNCHANGED stack

Insert(k, v) ==
  \/ Push("insert", k, v)
  \/ RefuseFull("insert", k)
  \/ /\ Answer("insert", k, "err_duplicate_key", NoValue)
     /\ stack[k] # << >>
     /\ UNCHANGED stack

Update(k, v) ==
  \/ Push("update", k, v)
  \/ RefuseFull("update", k)
  \/ /\ Answer("update", k, "err_ok", NoValue)
     /\ stack[k] # << >>
     /\ stack' = [stack EXCEPT ![k][1] = v]

\* Reads and deletes reach the newest copy only.
Miss(call, k) ==
  /\ Answer(call, k, "err_item_not_found", NoValue)
  /\ stack[k] = << >>
  /\ UNCHANGED stack

Delete(k) ==
  \/ Miss("delete", k)
  \/ /\ Answer("delete", k, "err_ok", NoValue)
     /\ stack[k] # << >>
     /\ stack' = [stack EXCEPT ![k] = Tail(@)]

Get(k) ==
  \/ Miss("get", k)
  \/ /\ stack[k] # << >>
     /\ Answer("get", k, "err_ok", Head(stack[k]))
     /\ UNCHANGED stack

\* The dictionary is deleted, or created anew.
Clear ==
  /\ UNCHANGED result
  /\ stack' = [k \in Keys |-> << >>]

Next ==
  \/ \E k \in Keys, v \in Values : Insert(k, v) \/ Update(k, v)
  \/ \E k \in Keys : Delete(k) \/ Get(k)
  \/ Clear

Spec == Init /\ [][Next]_vars
=============================================================================
