------------------------------ MODULE LruList ------------------------------
(***************************************************************************)
(* The operations of Go's container/list that the LRU caches of pacproxy   *)
(* use, on sequences: position 1 is the front of the list.  A list element *)
(* is identified by its value, so a list never holds a value twice.        *)
(***************************************************************************)
EXTENDS Integers, Sequences, SequencesExt

(* No element is linked twice.                                             *)
Distinct(list) ==
    \A i, j \in 1..Len(list) : list[i] = list[j] => i = j

PositionOf(list, e) == CHOOSE i \in 1..Len(list) : list[i] = e

(* list.Remove(e)                                                          *)
Unlink(list, e) == RemoveAt(list, PositionOf(list, e))

(* list.PushFront(e)                                                       *)
PushFront(list, e) == Cons(e, list)

(* list.MoveToFront(e)                                                     *)
MoveToFront(list, e) == PushFront(Unlink(list, e), e)

(* Mutant of Keep: the bound is off by one.                                *)
KeepOneMore(list, n) == IF Len(list) > n + 1 THEN SubSeq(list, 1, n + 1) ELSE list

(* What is left after removing list.Back() while list.Len() > n, and what  *)
(* was removed.                                                            *)
Keep(list, n)    == IF Len(list) > n THEN SubSeq(list, 1, n) ELSE list
Evicted(list, n) == {list[i] : i \in (n + 1)..Len(list)}
=============================================================================
