---------------------------- MODULE LinkedFileBag ----------------------------
(***************************************************************************)
(* The linked file bag (file/linked_file_bag): the values of a B+ tree, in *)
(* a file of records, each with the offset of the next one of its key.     *)
(* Freed records form a list through the same field, from next_empty on.   *)
(* A bag is a record of the file and next_empty; an offset is the number   *)
(* of a record.                                                            *)
(***************************************************************************)
EXTENDS Integers, Sequences

ION_LFB_NULL == -1

NewBag == [file |-> << >>, next_empty |-> ION_LFB_NULL]

\* Where lfb_put writes: the first freed record, or the end of the file.
PutAt(bag) == IF bag.next_empty # ION_LFB_NULL THEN bag.next_empty ELSE Len(bag.file) + 1

lfb_put(bag, v, next) ==
  LET r == [value |-> v, next |-> next] IN
  IF bag.next_empty # ION_LFB_NULL
    THEN [file |-> [bag.file EXCEPT ![bag.next_empty] = r],
          next_empty |-> bag.file[bag.next_empty].next]
    ELSE [bag EXCEPT !.file = Append(@, r)]

\* The value and the offset of the next record.
lfb_get(bag, offset) == bag.file[offset]

\* The offsets of a list, in its order.  A list has no cycle, so that it is
\* never longer than the file.
List(bag, offset) ==
  LET first[n \in 0 .. Len(bag.file)] ==
        IF n = 0 THEN << >>
        ELSE LET so == first[n - 1]
                 o == IF so = << >> THEN offset ELSE bag.file[so[Len(so)]].next
             IN IF o = ION_LFB_NULL THEN so ELSE Append(so, o)
  IN first[Len(bag.file)]

Offsets(bag, offset) == LET list == List(bag, offset) IN { list[i] : i \in DOMAIN list }

lfb_update_next(bag, offset, next) ==
  [file |-> [bag.file EXCEPT ![offset].next = next], next_empty |-> offset]

lfb_delete(bag, offset) == lfb_update_next(bag, offset, bag.next_empty)

\* Mutant: the first record is freed twice, and so is linked to itself.
FreesFirstTwice(bag, offset) ==
  IF offset = ION_LFB_NULL THEN bag ELSE lfb_delete(lfb_delete(bag, offset), offset)

\* The list is freed from its front, each record before the next is read.
lfb_delete_all(bag, offset) ==
  LET list == List(bag, offset)
      freed[i \in 0 .. Len(list)] == IF i = 0 THEN bag ELSE lfb_delete(freed[i - 1], list[i])
  IN freed[Len(list)]

\* lfb_update without a next offset, on each record of the list.
lfb_update_all(bag, offset, v) ==
  [bag EXCEPT !.file = [o \in DOMAIN @ |->
     IF o \in Offsets(bag, offset) THEN [@[o] EXCEPT !.value = v] ELSE @[o]]]
=============================================================================
